---------------------------- MODULE Spec2Model ----------------------------
(***************************************************************************)
(* DocBoxRX triage core: the jonE5 classifier (rule table first, external  *)
(* reasoning fallback below the confidence threshold, learned overrides),  *)
(* the message store with corrections, status changes and escalation, and  *)
(* the triage grid (Decision Deck) that re-buckets by risk and deadline.   *)
(*                                                                         *)
(* Text is a sequence of tokens (words and punctuation); a keyword or a    *)
(* domain pattern is a token sequence and matches as a contiguous run.     *)
(* Confidence and risk are in hundredths (0.90 is 90); time is in hours.   *)
(***************************************************************************)
EXTENDS Integers, Sequences, FiniteSets, TLC

VARIABLES
    triggers,     \* the trigger table the classifier reads
    messages,     \* id -> stored message / state vector
    nextId,       \* next message identity to hand out
    overrides,    \* rule_overrides table: set of rows [key, zone]
    lastCorrection, \* corrections table: its most recent row, or NoCorrection
    events,       \* message_events table: sequence of audit events
    now,          \* current time, hours
    response,     \* outcome of the last request handled by the backend
    grid,         \* GridView's grid: the last GridResponse fetched, or NoGrid
    token,        \* App's token state, or NoToken
    user,         \* App's user state, or NoUser
    storage,      \* localStorage: docboxrx_token and docboxrx_user
    zoneData,     \* App's zoneData state, or NoZoneData
    selectedMessage, \* App's selectedMessage state, or NoMessage
    actionCenter, \* App's actionCenter state, or NoActionCenter
    loading,      \* App's loading flag
    requests,     \* HTTP requests in flight, by the number they were issued with
    jone5Message, \* the notification line (jone5Message)
    selectedItem, \* GridView's selectedItem state, or NoItem
    gridLoading,  \* GridView's loading state
    calls         \* backend operations in progress

\* the state of the browser
client == <<token, user, storage, zoneData, selectedMessage, actionCenter,
            loading, requests, jone5Message, selectedItem,
                   gridLoading>>

\* the state of the backend
backend == <<triggers, messages, nextId, overrides, lastCorrection, events, now, response>>

vars == <<backend, grid, client, calls>>

----------------------------------------------------------------------------
(* Bounds of the model *)

MaxMsgs == 2      \* messages ingested under SpecClassifier
MaxTracked == 1   \* messages ingested under Spec
MaxLearned == 2   \* messages ingested under SpecLearning
MaxGridMsgs == 2  \* state vectors on the grid under SpecGrid
MaxDeckMsgs == 13  \* state vectors on the grid under SpecDeck
MaxEvents == 2    \* audit events appended
MaxTicks == 2     \* hours the clock runs
MaxCalls == 2     \* corrections and escalations in progress under SpecConcurrent
MaxRequests == 2  \* requests the user starts in the browser

----------------------------------------------------------------------------
(* Zones *)

ZoneOrder == <<"STAT", "TODAY", "THIS_WEEK", "LATER">>

Zones == {ZoneOrder[i] : i \in DOMAIN ZoneOrder}

\* Position in the priority order: 1 is the most urgent.
ZoneRank(z) == CHOOSE i \in DOMAIN ZoneOrder : ZoneOrder[i] = z

----------------------------------------------------------------------------
(* Text normalisation: case-fold, strip *)

FoldTable ==
    [t \in {"STAT", "Urgent", "URGENT", "Refill", "Newsletter", "Unsubscribe",
            "Appointment", "LabCorp", "CVS"} |->
        CASE t = "STAT" -> "stat"
          [] t = "Urgent" -> "urgent"
          [] t = "URGENT" -> "urgent"
          [] t = "Refill" -> "refill"
          [] t = "Newsletter" -> "newsletter"
          [] t = "Unsubscribe" -> "unsubscribe"
          [] t = "Appointment" -> "appointment"
          [] t = "LabCorp" -> "labcorp"
          [] t = "CVS" -> "cvs"]

Fold(t) == IF t \in DOMAIN FoldTable THEN FoldTable[t] ELSE t

RECURSIVE StripLeft(_)
StripLeft(s) ==
    IF s # <<>> /\ Head(s) = " " THEN StripLeft(Tail(s)) ELSE s

RECURSIVE StripRight(_)
StripRight(s) ==
    IF s # <<>> /\ s[Len(s)] = " " THEN StripRight(SubSeq(s, 1, Len(s) - 1)) ELSE s

Normalize(s) ==
    LET stripped == StripRight(StripLeft(s))
    IN  [i \in DOMAIN stripped |-> Fold(stripped[i])]

\* pat occurs in text as a contiguous run of tokens
Contains(text, pat) ==
    \E i \in 1..(Len(text) - Len(pat) + 1) :
        SubSeq(text, i, i + Len(pat) - 1) = pat

ContainsAny(text, pats) == \E p \in pats : Contains(text, p)

\* the part of the sender address after "@" (the whole of it when there is none)
SenderDomain(sender) ==
    LET n == Normalize(sender)
        ats == {i \in DOMAIN n : n[i] = "@"}
    IN  IF ats = {} THEN n
        ELSE LET last == CHOOSE i \in ats : \A j \in ats : j <= i
             IN  SubSeq(n, last + 1, Len(n))

----------------------------------------------------------------------------
(* Trigger table *)

StatKeywords ==
    {<<"stat">>, <<"urgent">>, <<"critical">>, <<"emergency">>, <<"abnormal">>,
     <<"positive">>}
StatDomains == {<<"labcorp", ".", "com">>, <<"quest">>, <<"pathology">>}

TodayKeywords ==
    {<<"refill">>, <<"prior", "auth">>, <<"pharmacy">>, <<"prescription">>}
TodayDomains == {<<"pharmacy">>, <<"cvs">>, <<"walgreens">>}

ThisWeekKeywords ==
    {<<"appointment">>, <<"schedule">>, <<"follow-up">>, <<"results">>}

LaterKeywords ==
    {<<"newsletter">>, <<"marketing">>, <<"unsubscribe">>, <<"promo">>}

StatConfidence == 90
TodayConfidence == 85
ThisWeekConfidence == 75
LaterConfidence == 60

FallbackThreshold == 70

\* The ordered table: STAT first, then TODAY, THIS_WEEK, LATER.
TriggerTable ==
    << [zone |-> "STAT", keywords |-> StatKeywords, domains |-> StatDomains,
        confidence |-> StatConfidence],
       [zone |-> "TODAY", keywords |-> TodayKeywords, domains |-> TodayDomains,
        confidence |-> TodayConfidence],
       [zone |-> "THIS_WEEK", keywords |-> ThisWeekKeywords, domains |-> {},
        confidence |-> ThisWeekConfidence],
       [zone |-> "LATER", keywords |-> LaterKeywords, domains |-> {},
        confidence |-> LaterConfidence] >>

\* the text the keywords are searched in: subject, then body
SearchText(msg) == Normalize(msg.subject) \o Normalize(msg.body)

RowMatches(row, msg) ==
    \/ ContainsAny(SearchText(msg), row.keywords)
    \/ ContainsAny(SenderDomain(msg.sender), row.domains)

\* FirstMatch with the priority order lost: the last matching row wins
FirstMatchLowest(table, msg) ==
    LET hits == {i \in DOMAIN table : RowMatches(table[i], msg)}
    IN  IF hits = {} THEN 0
        ELSE CHOOSE i \in hits : \A j \in hits : j <= i

\* index of the first row of the table that matches, 0 when none does
FirstMatch(table, msg) ==
    LET hits == {i \in DOMAIN table : RowMatches(table[i], msg)}
    IN  IF hits = {} THEN 0
        ELSE CHOOSE i \in hits : \A j \in hits : i <= j

----------------------------------------------------------------------------
(* External reasoning provider *)

\* What a call to the provider can come back with: no answer within the
\* timeout, a provider error, or a body that still has to be validated.
ProviderResponses ==
    {[kind |-> "timeout"], [kind |-> "error"]}
    \cup {[kind |-> "body", zone |-> "STAT", confidence |-> 80],
          [kind |-> "body", zone |-> "LATER", confidence |-> 50],
          [kind |-> "body", zone |-> "CRITICAL", confidence |-> 80]}

\* tagged result: Ok with validated fields, or Err with the failure
ParseProvider(resp) ==
    IF resp.kind # "body"
    THEN [ok |-> FALSE, err |-> resp.kind, zone |-> "NONE", confidence |-> 0]
    ELSE IF resp.zone \in Zones /\ resp.confidence \in 0..100
    THEN [ok |-> TRUE, err |-> "none", zone |-> resp.zone,
          confidence |-> resp.confidence]
    ELSE [ok |-> FALSE, err |-> "malformed", zone |-> "NONE", confidence |-> 0]

----------------------------------------------------------------------------
(* Classifier *)

DegradedConfidence == 30
OverrideConfidence == 95

\* RiskScore with STAT placed under the grid's STAT threshold
RiskScoreFlat(zone) ==
    CASE zone = "STAT" -> 75
      [] zone = "TODAY" -> 70
      [] zone = "THIS_WEEK" -> 50
      [] zone = "LATER" -> 10

\* monotonic mapping from zone to numeric risk
RiskScore(zone) ==
    CASE zone = "STAT" -> 90
      [] zone = "TODAY" -> 70
      [] zone = "THIS_WEEK" -> 50
      [] zone = "LATER" -> 10

OverrideKey(msg) == SenderDomain(msg.sender)

\* the zones the override rows hold for a signal
OverrideZones(ovs, key) == {r.zone : r \in {x \in ovs : x.key = key}}

\* NeedsFallback comparing with <= against a threshold of 0.75
NeedsFallbackWide(table, m) ==
    m = 0 \/ table[m].confidence <= ThisWeekConfidence

\* NeedsFallback that trusts every matching rule
NeedsFallbackNoMatchOnly(table, m) == m = 0

NeedsFallback(table, m) ==
    m = 0 \/ table[m].confidence < FallbackThreshold

\* provider: "not_called", "ok" or "failed", recorded for observability
Outcome(zone, confidence, reason, provider) ==
    [zone |-> zone, confidence |-> confidence, reason |-> reason,
     risk_score |-> RiskScore(zone), provider |-> provider, raised |-> FALSE]

\* Degraded that lets the provider failure escape to the caller
DegradedRaising ==
    [zone |-> "LATER", confidence |-> DegradedConfidence, reason |-> "degraded",
     risk_score |-> RiskScore("LATER"), provider |-> "failed", raised |-> TRUE]

\* fallback failure: default zone, fixed low confidence, generic reason
Degraded == Outcome("LATER", DegradedConfidence, "degraded", "failed")

Fallback(resp) ==
    LET parsed == ParseProvider(resp)
    IN  IF parsed.ok
        THEN Outcome(parsed.zone, parsed.confidence, "llm", "ok")
        ELSE Degraded

\* whether classify turns to the external reasoning provider
CallsProvider(msg, table, ovs) ==
    /\ OverrideZones(ovs, OverrideKey(msg)) = {}
    /\ NeedsFallback(table, FirstMatch(table, msg))

\* Classify that consults the overrides only when no trusted rule matches
ClassifyRulesFirst(msg, table, ovs, resp) ==
    LET learned == OverrideZones(ovs, OverrideKey(msg))
        m == FirstMatch(table, msg)
    IN  IF ~NeedsFallback(table, m)
        THEN Outcome(table[m].zone, table[m].confidence, "rule", "not_called")
        ELSE IF learned # {}
        THEN Outcome(CHOOSE z \in learned : TRUE, OverrideConfidence,
                     "override", "not_called")
        ELSE Fallback(resp)

\* Classify that takes the provider's answer first and the rules as fallback
ClassifyLlmFirst(msg, table, ovs, resp) ==
    LET learned == OverrideZones(ovs, OverrideKey(msg))
        m == FirstMatch(table, msg)
    IN  IF learned # {}
        THEN Outcome(CHOOSE z \in learned : TRUE, OverrideConfidence,
                     "override", "not_called")
        ELSE IF resp.kind = "body" /\ ParseProvider(resp).ok
        THEN Fallback(resp)
        ELSE IF m = 0 THEN Degraded
        ELSE Outcome(table[m].zone, table[m].confidence, "rule", "not_called")

\* classify(sender, subject, body) under the trigger table and the overrides;
\* resp is what the provider answers when it is called
Classify(msg, table, ovs, resp) ==
    LET learned == OverrideZones(ovs, OverrideKey(msg))
        m == FirstMatch(table, msg)
    IN  IF learned # {}
        THEN Outcome(CHOOSE z \in learned : TRUE, OverrideConfidence,
                     "override", "not_called")
        ELSE IF CallsProvider(msg, table, ovs)
        THEN Fallback(resp)
        ELSE Outcome(table[m].zone, table[m].confidence, "rule", "not_called")

----------------------------------------------------------------------------
(* Inputs *)

\* Messages offered for ingestion: (sender, subject, body) as token sequences.
SampleMessages ==
    { [sender |-> <<"lab", "@", "LabCorp", ".", "com">>,
       subject |-> <<"STAT", "abnormal", "potassium">>,
       body |-> <<"K+", "6.8">>],
      [sender |-> <<"news", "@", "medscape", ".", "com">>,
       subject |-> <<"Weekly", "CME", "digest">>,
       body |-> <<"unsubscribe">>],
      [sender |-> <<"office", "@", "clinic", ".", "org">>,
       subject |-> <<" ", "Urgent", "newsletter">>,
       body |-> <<>>],
      [sender |-> <<"office", "@", "clinic", ".", "org">>,
       subject |-> <<"Lunch", "menu">>,
       body |-> <<"see", "you">>],
      [sender |-> <<"rx", "@", "CVS", ".", "com">>,
       subject |-> <<"Refill", "request">>,
       body |-> <<"schedule", "Appointment">>],
      [sender |-> <<"news", "@", "medscape", ".", "com">>,
       subject |-> <<"follow-up", "results">>,
       body |-> <<" ">>] }

\* The two end-to-end messages: one decided by a rule, one by the fallback.
CoreMessages ==
    {m \in SampleMessages :
        m.subject \in {<<"STAT", "abnormal", "potassium">>,
                       <<"Weekly", "CME", "digest">>}}

\* deadline_at and snoozed_until when none is set
NoDeadline == -1

SnoozeHours == {4}

Roles == {"triage_nurse", "lead_doctor"}

EscalationRole == "lead_doctor"

----------------------------------------------------------------------------
(* Store *)

Ids == DOMAIN messages

NoGrid == [owner |-> "NONE", zones |-> <<>>]

NoCorrection == [key |-> <<>>, zone |-> "NONE"]

NoToken == "none"

NoUser == "none"

NoZoneData == [owner |-> NoUser, request |-> 0, zones |-> <<>>]

NoMessage == [id |-> 0, owner |-> NoUser]

NoActionCenter ==
    [owner |-> NoUser, urgent_items |-> {}, snoozed_due |-> {},
     action_items |-> {}, total_action_items |-> 0]

NoItem == 0

\* the browser before the page is loaded, and the backend at rest
InitClient ==
    /\ token = NoToken
    /\ user = NoUser
    /\ storage = [docboxrx_token |-> NoToken, docboxrx_user |-> NoUser]
    /\ zoneData = NoZoneData
    /\ selectedMessage = NoMessage
    /\ actionCenter = NoActionCenter
    /\ loading = FALSE
    /\ requests = <<>>
    /\ jone5Message = ""
    /\ selectedItem = NoItem
    /\ gridLoading = FALSE
    /\ calls = <<>>

Init ==
    /\ triggers = TriggerTable
    /\ messages = [i \in {} |-> 0]
    /\ nextId = 1
    /\ overrides = {}
    /\ lastCorrection = NoCorrection
    /\ events = <<>>
    /\ now = 0
    /\ response = "none"
    /\ grid = NoGrid
    /\ InitClient

\* the message record persisted for a classified input
NewMessage(id, msg, c, deadline) ==
    [id |-> id,
     sender |-> msg.sender, sender_domain |-> SenderDomain(msg.sender),
     subject |-> msg.subject, body |-> msg.body,
     zone |-> c.zone, confidence |-> c.confidence, reason |-> c.reason,
     risk_score |-> c.risk_score, provider |-> c.provider,
     corrected |-> FALSE,
     lifecycle_state |-> "triaged", current_owner_role |-> "triage_nurse",
     deadline_at |-> deadline,
     status |-> "active", snoozed_until |-> NoDeadline]

NotCalled == [kind |-> "not_called"]

\* what the provider can answer to this call of classify
Answers(msg) ==
    IF CallsProvider(msg, triggers, overrides) THEN ProviderResponses
    ELSE {NotCalled}

\* POST /api/messages/ingest
Ingest(msg, deadline, cap) ==
    /\ nextId <= cap
    /\ \E resp \in Answers(msg) :
       LET c == Classify(msg, triggers, overrides, resp)
       IN  IF c.raised
           THEN /\ response' = "ExternalProviderError"
                /\ UNCHANGED <<messages, nextId>>
           ELSE /\ messages' =
                     [i \in Ids \cup {nextId} |->
                        IF i = nextId THEN NewMessage(nextId, msg, c, deadline)
                        ELSE messages[i]]
                /\ nextId' = nextId + 1
                /\ response' = "ok"
    /\ UNCHANGED <<client, calls, triggers, overrides, lastCorrection, events, now, grid>>

\* UpsertOverride that adds a row and keeps the old ones
InsertOverride(ovs, key, zone) == ovs \cup {[key |-> key, zone |-> zone]}

\* rule_overrides upsert: one row per key, the new zone replaces the old
UpsertOverride(ovs, key, zone) ==
    {r \in ovs : r.key # key} \cup {[key |-> key, zone |-> zone]}

\* Correct that moves the message and leaves its corrected flag alone
CorrectSilently(id, newZone) ==
    /\ IF id \notin DOMAIN messages
       THEN /\ response' = "NotFound"
            /\ UNCHANGED <<messages, overrides, lastCorrection>>
       ELSE /\ messages' = [messages EXCEPT ![id].zone = newZone]
            /\ overrides' =
                  {r \in overrides : r.key # messages[id].sender_domain}
                     \cup {[key |-> messages[id].sender_domain, zone |-> newZone]}
            /\ lastCorrection' =
                  [key |-> messages[id].sender_domain, zone |-> newZone]
            /\ response' = "ok"
    /\ UNCHANGED <<client, calls, triggers, nextId, events, now, grid>>

\* POST /api/messages/correct {message_id, new_zone}
Correct(id, newZone) ==
    /\ IF id \notin Ids
       THEN /\ response' = "NotFound"
            /\ UNCHANGED <<messages, overrides, lastCorrection>>
       ELSE /\ messages' = [messages EXCEPT ![id].zone = newZone,
                                            ![id].corrected = TRUE]
            /\ overrides' =
                  UpsertOverride(overrides, messages[id].sender_domain, newZone)
            /\ lastCorrection' =
                  [key |-> messages[id].sender_domain, zone |-> newZone]
            /\ response' = "ok"
    /\ UNCHANGED <<client, calls, triggers, nextId, events, now, grid>>

\* SetStatus whose done action resolves a message in any lifecycle state
SetStatusDoneAlways(id, status, hours) ==
    /\ IF id \notin DOMAIN messages
       THEN /\ response' = "NotFound"
            /\ UNCHANGED messages
       ELSE /\ messages' =
                  [messages EXCEPT
                     ![id].status = status,
                     ![id].snoozed_until =
                        IF status = "snoozed" THEN now + hours ELSE NoDeadline,
                     ![id].lifecycle_state =
                        IF status = "done" THEN "resolved" ELSE @]
            /\ response' = "ok"
    /\ UNCHANGED <<client, calls, triggers, nextId, overrides, lastCorrection, events, now, grid>>

\* POST /api/messages/{id}/status {status, snoozed_until}
SetStatus(id, status, hours) ==
    /\ IF id \notin Ids
       THEN /\ response' = "NotFound"
            /\ UNCHANGED messages
       ELSE /\ messages' =
                  [messages EXCEPT
                     ![id].status = status,
                     ![id].snoozed_until =
                        IF status = "snoozed" THEN now + hours ELSE NoDeadline,
                     ![id].lifecycle_state =
                        IF status = "done" /\ @ \in {"triaged", "pending_action"}
                        THEN "resolved" ELSE @]
            /\ response' = "ok"
    /\ UNCHANGED <<client, calls, triggers, nextId, overrides, lastCorrection, events, now, grid>>

\* the message_events row an escalation of message id inserts
EscalatedEvent(evs, id) ==
    [id |-> Len(evs) + 1, vector_id |-> id, event_type |-> "ESCALATED"]

\* Escalate that logs the event twice
EscalateDoubleLog(id) ==
    /\ Len(events) < MaxEvents
    /\ IF id \notin DOMAIN messages
       THEN /\ response' = "NotFound"
            /\ UNCHANGED <<messages, events>>
       ELSE IF messages[id].lifecycle_state = "resolved"
       THEN /\ response' = "InvalidState"
            /\ UNCHANGED <<messages, events>>
       ELSE /\ messages' =
                  [messages EXCEPT ![id].lifecycle_state = "overdue",
                                   ![id].current_owner_role = EscalationRole]
            /\ events' =
                  Append(Append(events, EscalatedEvent(events, id)),
                         EscalatedEvent(Append(events, EscalatedEvent(events, id)), id))
            /\ response' = "ok"
    /\ UNCHANGED <<client, calls, triggers, nextId, overrides, lastCorrection, now, grid>>

\* Escalate whose failed write leaves the message changed and no event
EscalateTorn(id) ==
    /\ Len(events) < MaxEvents
    /\ IF id \notin DOMAIN messages
       THEN /\ response' = "NotFound"
            /\ UNCHANGED <<messages, events>>
       ELSE IF messages[id].lifecycle_state = "resolved"
       THEN /\ response' = "InvalidState"
            /\ UNCHANGED <<messages, events>>
       ELSE /\ messages' =
                  [messages EXCEPT ![id].lifecycle_state = "overdue",
                                   ![id].current_owner_role = EscalationRole]
            /\ \E persisted \in BOOLEAN :
                  IF persisted
                  THEN /\ events' = Append(events, EscalatedEvent(events, id))
                       /\ response' = "ok"
                  ELSE /\ response' = "PersistenceError"
                       /\ UNCHANGED events
    /\ UNCHANGED <<client, calls, triggers, nextId, overrides, lastCorrection, now, grid>>

\* Escalate that does not look at the lifecycle state
EscalateAnyState(id) ==
    /\ Len(events) < MaxEvents
    /\ IF id \notin DOMAIN messages
       THEN /\ response' = "NotFound"
            /\ UNCHANGED <<messages, events>>
       ELSE /\ messages' =
                  [messages EXCEPT ![id].lifecycle_state = "overdue",
                                   ![id].current_owner_role = EscalationRole]
            /\ events' = Append(events, EscalatedEvent(events, id))
            /\ response' = "ok"
    /\ UNCHANGED <<client, calls, triggers, nextId, overrides, lastCorrection, now, grid>>

\* POST /api/messages/{id}/escalate; the write either commits whole or fails
Escalate(id) ==
    /\ Len(events) < MaxEvents
    /\ IF id \notin Ids
       THEN /\ response' = "NotFound"
            /\ UNCHANGED <<messages, events>>
       ELSE IF messages[id].lifecycle_state = "resolved"
       THEN /\ response' = "InvalidState"
            /\ UNCHANGED <<messages, events>>
       ELSE \E persisted \in BOOLEAN :
              IF persisted
              THEN /\ messages' =
                        [messages EXCEPT ![id].lifecycle_state = "overdue",
                                         ![id].current_owner_role = EscalationRole]
                   /\ events' = Append(events, EscalatedEvent(events, id))
                   /\ response' = "ok"
              ELSE /\ response' = "PersistenceError"
                   /\ UNCHANGED <<messages, events>>
    /\ UNCHANGED <<client, calls, triggers, nextId, overrides, lastCorrection, now, grid>>

\* the events that do not concern message id
EventsNotOf(evs, id) ==
    LET keep == {k \in DOMAIN evs : evs[k].vector_id # id}
        RECURSIVE Pick(_)
        Pick(k) == IF k > Len(evs) THEN <<>>
                   ELSE IF k \in keep THEN <<evs[k]>> \o Pick(k + 1)
                   ELSE Pick(k + 1)
    IN  Pick(1)

\* Delete that removes the message's audit events with it
DeleteCascade(id) ==
    /\ IF id \notin DOMAIN messages
       THEN /\ response' = "NotFound"
            /\ UNCHANGED <<messages, events>>
       ELSE /\ messages' = [i \in DOMAIN messages \ {id} |-> messages[i]]
            /\ events' = EventsNotOf(events, id)
            /\ response' = "ok"
    /\ UNCHANGED <<client, calls, triggers, nextId, overrides, lastCorrection, now, grid>>

\* App.handleDelete: DELETE /api/messages/{id}; the audit log is not touched
Delete(id) ==
    /\ IF id \notin Ids
       THEN /\ response' = "NotFound"
            /\ UNCHANGED messages
       ELSE /\ messages' = [i \in Ids \ {id} |-> messages[i]]
            /\ response' = "ok"
    /\ UNCHANGED <<client, calls, triggers, nextId, overrides, lastCorrection, events, now, grid>>

----------------------------------------------------------------------------
(* Triage grid *)

HoursToday == 24
HoursThisWeek == 72
RiskStat == 80
PreviewCap == 8

\* Lifecycle Mapping of the state vector's L to the grid's states
GridState(lifecycle) ==
    CASE lifecycle = "new" -> "NEEDS_REPLY"
      [] lifecycle \in {"triaged", "pending_action"} -> "WAITING"
      [] lifecycle = "resolved" -> "RESOLVED"
      [] lifecycle = "overdue" -> "OVERDUE"

\* Included that drops escalated messages from the grid
IncludedNoOverdue(m, owner) ==
    /\ GridState(m.lifecycle_state) \in {"NEEDS_REPLY", "WAITING"}
    /\ owner = "ALL" \/ m.current_owner_role = owner

Included(m, owner) ==
    /\ GridState(m.lifecycle_state) \in {"NEEDS_REPLY", "WAITING", "OVERDUE"}
    /\ owner = "ALL" \/ m.current_owner_role = owner

\* ZoneForMessage that counts only deadlines still ahead
ZoneForMessageAhead(m, t) ==
    IF m.risk_score >= RiskStat THEN "STAT"
    ELSE IF m.deadline_at - t > 0 /\ m.deadline_at - t <= HoursToday
    THEN "TODAY"
    ELSE IF m.deadline_at - t > 0 /\ m.deadline_at - t <= HoursThisWeek
    THEN "THIS_WEEK"
    ELSE "LATER"

\* ZoneForMessage that lets a stored STAT zone decide
ZoneForMessageStored(m, t) ==
    IF m.zone = "STAT" \/ m.risk_score >= RiskStat THEN "STAT"
    ELSE IF m.deadline_at # NoDeadline /\ m.deadline_at - t <= HoursToday
    THEN "TODAY"
    ELSE IF m.deadline_at # NoDeadline /\ m.deadline_at - t <= HoursThisWeek
    THEN "THIS_WEEK"
    ELSE "LATER"

\* zone_for_message(): the display zone at time t
ZoneForMessage(m, t) ==
    IF m.risk_score >= RiskStat THEN "STAT"
    ELSE IF m.deadline_at # NoDeadline /\ m.deadline_at - t <= HoursToday
    THEN "TODAY"
    ELSE IF m.deadline_at # NoDeadline /\ m.deadline_at - t <= HoursThisWeek
    THEN "THIS_WEEK"
    ELSE "LATER"

\* IsOverdue that takes a missing deadline for one that has passed
IsOverdueNoDeadline(m, t) ==
    /\ m.deadline_at < t
    /\ m.lifecycle_state # "resolved"

IsOverdue(m, t) ==
    /\ m.deadline_at # NoDeadline
    /\ m.deadline_at < t
    /\ m.lifecycle_state # "resolved"

\* preview order: risk_score descending, then deadline ascending (none last),
\* then identity
Before(a, b) ==
    \/ a.risk_score > b.risk_score
    \/ /\ a.risk_score = b.risk_score
       /\ \/ a.deadline_at # NoDeadline /\ b.deadline_at = NoDeadline
          \/ /\ a.deadline_at # NoDeadline
             /\ b.deadline_at # NoDeadline
             /\ a.deadline_at < b.deadline_at
          \/ a.deadline_at = b.deadline_at /\ a.id < b.id

RECURSIVE SortItems(_)
SortItems(ms) ==
    IF ms = {} THEN <<>>
    ELSE LET first == CHOOSE a \in ms : \A b \in ms \ {a} : Before(a, b)
         IN  <<first>> \o SortItems(ms \ {first})

GridItem(m) ==
    [id |-> m.id, risk_score |-> m.risk_score,
     lifecycle_state |-> GridState(m.lifecycle_state),
     deadline_at |-> m.deadline_at]

Take(s, n) == SubSeq(s, 1, IF Len(s) < n THEN Len(s) ELSE n)

\* bucket(messages, owner) at time t
Bucket(msgs, owner, t) ==
    LET inc == {msgs[i] : i \in {j \in DOMAIN msgs : Included(msgs[j], owner)}}
        zoneOf(z) == {m \in inc : ZoneForMessage(m, t) = z}
        sorted(z) == SortItems(zoneOf(z))
    IN  [owner |-> owner,
         zones |->
            [k \in DOMAIN ZoneOrder |->
               [zone |-> ZoneOrder[k],
                total_count |-> Cardinality(zoneOf(ZoneOrder[k])),
                overdue_count |->
                    Cardinality({m \in zoneOf(ZoneOrder[k]) : IsOverdue(m, t)}),
                items |->
                    LET srt == sorted(ZoneOrder[k])
                    IN  [n \in DOMAIN Take(srt, PreviewCap) |-> GridItem(srt[n])]]]]

\* FetchGrid that adds the new counts to those of the response it holds
FetchGridAdding(owner) ==
    /\ grid' =
          LET b == Bucket(messages, owner, now)
          IN  IF grid.owner # owner THEN b
              ELSE [b EXCEPT !.zones =
                      [k \in DOMAIN b.zones |->
                         [b.zones[k] EXCEPT
                            !.total_count = @ + grid.zones[k].total_count]]]
    /\ response' = "ok"
    /\ UNCHANGED <<client, calls, triggers, messages, nextId, overrides, lastCorrection, events, now>>

\* GridView.fetchGrid: GET /api/state/grid?owner=
FetchGrid(owner) ==
    /\ grid' = Bucket(messages, owner, now)
    /\ response' = "ok"
    /\ UNCHANGED <<client, calls, triggers, messages, nextId, overrides, lastCorrection, events, now>>

StatPreviewCap == 3
OtherPreviewCap == 8

\* Preview that shows eight cards in every zone
PreviewEight(g, z) ==
    LET hit == {k \in DOMAIN g.zones : g.zones[k].zone = z}
    IN  IF hit = {} THEN <<>>
        ELSE Take(g.zones[CHOOSE k \in hit : TRUE].items, OtherPreviewCap)

\* GridView: the cards shown for zone z of the response g
Preview(g, z) ==
    LET hit == {k \in DOMAIN g.zones : g.zones[k].zone = z}
    IN  IF hit = {} THEN <<>>
        ELSE Take(g.zones[CHOOSE k \in hit : TRUE].items,
                  IF z = "STAT" THEN StatPreviewCap ELSE OtherPreviewCap)

\* an hour passes
Tick ==
    /\ now < MaxTicks
    /\ now' = now + 1
    /\ UNCHANGED <<client, calls, triggers, messages, nextId, overrides, lastCorrection, events,
                   response, grid>>

----------------------------------------------------------------------------
(* Specifications *)

IngestSample ==
    \E msg \in SampleMessages : Ingest(msg, NoDeadline, MaxMsgs)

\* App.handleCorrection: the user moves a message on display
CorrectStored == \E id \in Ids, z \in Zones : Correct(id, z)

\* the classifier and what it learns: ingestion and correction
NextClassifier == IngestSample \/ CorrectStored

SpecClassifier == Init /\ [][NextClassifier]_vars

TrackedIds == 1..MaxTracked

IngestTracked ==
    \E msg \in CoreMessages : Ingest(msg, NoDeadline, MaxTracked)

CorrectTracked == \E id \in TrackedIds, z \in Zones : Correct(id, z)

SetStatusAny ==
    \E id \in TrackedIds, st \in {"done", "archived", "snoozed"},
       h \in SnoozeHours :
        SetStatus(id, st, h)

EscalateAny == \E id \in TrackedIds : Escalate(id)

\* the backend: every request on the message store
Next == IngestTracked \/ CorrectTracked \/ SetStatusAny \/ EscalateAny

Spec == Init /\ [][Next]_vars

DeleteAny == \E id \in TrackedIds : Delete(id)

\* the backend with the user's delete action
NextAudit ==
    IngestTracked \/ CorrectTracked \/ SetStatusAny \/ EscalateAny \/ DeleteAny

SpecAudit == Init /\ [][NextAudit]_vars

LearningMessages ==
    {m \in SampleMessages :
        m.subject \in {<<"STAT", "abnormal", "potassium">>,
                       <<" ", "Urgent", "newsletter">>}}

IngestLearning ==
    \E msg \in LearningMessages : Ingest(msg, NoDeadline, MaxLearned)

CorrectLearned == \E id \in 1..MaxLearned, z \in Zones : Correct(id, z)

NextLearning == IngestLearning \/ CorrectLearned \/ Tick

SpecLearning == Init /\ [][NextLearning]_vars

----------------------------------------------------------------------------
(* The grid over arbitrary state vectors *)

GridRisks == {50, 80}
GridDeadlines == {10, 25, 73, NoDeadline}
GridLifecycles == {"triaged", "resolved"}
GridStoredZones == {"STAT", "LATER"}
GridOwners == Roles \cup {"ALL"}

\* a stored message with the given grid fields, classified earlier
GridRow(id, risk, deadline, lifecycle, zone) ==
    [id |-> id,
     sender |-> <<"office", "@", "clinic", ".", "org">>,
     sender_domain |-> <<"clinic", ".", "org">>,
     subject |-> <<"Lunch", "menu">>, body |-> <<>>,
     zone |-> zone, confidence |-> 80, reason |-> "llm",
     risk_score |-> risk, provider |-> "ok",
     corrected |-> FALSE,
     lifecycle_state |-> lifecycle, current_owner_role |-> "triage_nurse",
     deadline_at |-> deadline,
     status |-> IF lifecycle = "resolved" THEN "done" ELSE "active",
     snoozed_until |-> NoDeadline]

GridRows(id) ==
    {GridRow(id, r, d, l, z) :
        r \in GridRisks, d \in GridDeadlines, l \in GridLifecycles,
        z \in GridStoredZones}

InitGrid ==
    /\ triggers = TriggerTable
    /\ \E n \in 0..MaxGridMsgs :
          /\ messages \in {f \in [1..n -> UNION {GridRows(i) : i \in 1..n}] :
                             \A i \in 1..n : f[i].id = i}
          /\ nextId = n + 1
    /\ overrides = {}
    /\ lastCorrection = NoCorrection
    /\ events = <<>>
    /\ now = 0
    /\ response = "none"
    /\ grid = NoGrid
    /\ InitClient

FetchGridAny == \E owner \in GridOwners : FetchGrid(owner)

NextGrid == FetchGridAny \/ Tick

SpecGrid == InitGrid /\ [][NextGrid]_vars

RiskShapes == {"high", "low", "mixed"}
DeadlineShapes == {"near", "spread", "none"}
LifecycleShapes == {"open", "mixed"}

DeckRisk(i, shape) ==
    CASE shape = "high" -> 80 + 5 * (i % 3)
      [] shape = "low" -> 50 - 10 * (i % 3)
      [] shape = "mixed" -> IF i % 3 = 0 THEN 80 ELSE 50

DeckDeadline(i, shape) ==
    CASE shape = "near" -> (i * 3) % 5
      [] shape = "spread" -> <<1, 25, 73, NoDeadline>>[(i % 4) + 1]
      [] shape = "none" -> NoDeadline

DeckLifecycle(i, shape) ==
    CASE shape = "open" -> "triaged"
      [] shape = "mixed" ->
            <<"new", "triaged", "pending_action", "resolved", "overdue">>[(i % 5) + 1]

\* the i-th state vector of a full deck
DeckRow(i, rs, ds, ls) ==
    [id |-> i,
     sender |-> <<"office", "@", "clinic", ".", "org">>,
     sender_domain |-> <<"clinic", ".", "org">>,
     subject |-> <<"Lunch", "menu">>, body |-> <<>>,
     zone |-> "LATER", confidence |-> 50, reason |-> "llm",
     risk_score |-> DeckRisk(i, rs), provider |-> "ok",
     corrected |-> FALSE,
     lifecycle_state |-> DeckLifecycle(i, ls),
     current_owner_role |->
        IF DeckLifecycle(i, ls) = "overdue" THEN EscalationRole ELSE "triage_nurse",
     deadline_at |-> DeckDeadline(i, ds),
     status |-> IF DeckLifecycle(i, ls) = "resolved" THEN "done" ELSE "active",
     snoozed_until |-> NoDeadline]

\* a store holding more vectors than a zone previews
InitDeck ==
    /\ triggers = TriggerTable
    /\ \E n \in 0..MaxDeckMsgs, rs \in RiskShapes, ds \in DeadlineShapes,
          ls \in LifecycleShapes :
          /\ messages = [i \in 1..n |-> DeckRow(i, rs, ds, ls)]
          /\ nextId = n + 1
    /\ overrides = {}
    /\ lastCorrection = NoCorrection
    /\ events = <<>>
    /\ now = 0
    /\ response = "none"
    /\ grid = NoGrid
    /\ InitClient

SpecDeck == InitDeck /\ [][NextGrid]_vars

TriageLifecycles == {"new", "triaged", "pending_action"}

\* a state vector as the vectorizer stores it, in lifecycle state l
TriageRow(id, l) ==
    [id |-> id,
     sender |-> <<"office", "@", "clinic", ".", "org">>,
     sender_domain |-> <<"clinic", ".", "org">>,
     subject |-> <<"Lunch", "menu">>, body |-> <<>>,
     zone |-> "LATER", confidence |-> 50, reason |-> "llm",
     risk_score |-> RiskScore("LATER"), provider |-> "ok",
     corrected |-> FALSE,
     lifecycle_state |-> l, current_owner_role |-> "triage_nurse",
     deadline_at |-> NoDeadline,
     status |-> "active", snoozed_until |-> NoDeadline]

InitTriage ==
    /\ triggers = TriggerTable
    /\ \E n \in 0..MaxTracked :
          /\ messages \in
                {f \in [1..n -> {TriageRow(i, l) : i \in 1..n, l \in TriageLifecycles}] :
                    \A i \in 1..n : f[i].id = i}
          /\ nextId = n + 1
    /\ overrides = {}
    /\ lastCorrection = NoCorrection
    /\ events = <<>>
    /\ now = 0
    /\ response = "none"
    /\ grid = NoGrid
    /\ InitClient

\* the grid queried between status actions and escalations
NextTriage == SetStatusAny \/ EscalateAny \/ FetchGridAny

SpecTriage == InitTriage /\ [][NextTriage]_vars

----------------------------------------------------------------------------
(* Action center: the query layer decides what is actionable *)

\* the snooze lengths the action bar offers, hours
SnoozeOptions == {1, 4}

\* Actionable that waits for something else to wake a snoozed message
ActionableUnlessSnoozed(m, t) == m.status = "active"

\* a message asks for action: not done, not archived, and not snoozed into
\* the future
Actionable(m, t) ==
    \/ m.status = "active"
    \/ m.status = "snoozed" /\ m.snoozed_until <= t

\* GET /api/action-center, answered at time t for user u
ActionCenterQuery(ms, u, t) ==
    LET due == {i \in DOMAIN ms :
                   ms[i].status = "snoozed" /\ Actionable(ms[i], t)}
        act == {i \in DOMAIN ms : Actionable(ms[i], t)}
    IN  [owner |-> u,
         urgent_items |-> {i \in act : ms[i].zone = "STAT"},
         snoozed_due |-> due,
         action_items |-> act,
         total_action_items |-> Cardinality(act)]

\* fetchActionCenter(), answered at once
GetActionCenter ==
    /\ actionCenter' = ActionCenterQuery(messages, user, now)
    /\ UNCHANGED <<backend, grid, calls, token, user, storage, zoneData,
                   selectedMessage, loading, requests, jone5Message, selectedItem,
                   gridLoading>>

SnoozeAny ==
    \E id \in TrackedIds, hours \in SnoozeOptions : SetStatus(id, "snoozed", hours)

NextSnooze == SnoozeAny \/ SetStatusAny \/ Tick \/ GetActionCenter

SpecSnooze == InitTriage /\ [][NextSnooze]_vars

----------------------------------------------------------------------------
(* Corrections and escalations in progress at the same time: a request reads
   the row, and its write is one atomic update of that row *)

\* RowUpdate that writes back the whole row as the request read it
RowUpdateWholeRow(current, snapshot, c) ==
    IF c.op = "correct"
    THEN [snapshot EXCEPT !.zone = c.zone, !.corrected = TRUE]
    ELSE [snapshot EXCEPT !.lifecycle_state = "overdue",
                          !.current_owner_role = EscalationRole]

\* the row a call writes: its own columns, on the row as it is at the write
RowUpdate(current, snapshot, c) ==
    IF c.op = "correct"
    THEN [current EXCEPT !.zone = c.zone, !.corrected = TRUE]
    ELSE [current EXCEPT !.lifecycle_state = "overdue",
                         !.current_owner_role = EscalationRole]

CorrectionZones == {"STAT", "LATER"}

\* a correction or an escalation arrives and reads the row
Begin(op, id, zone) ==
    /\ Len(calls) < MaxCalls
    /\ id \in Ids
    /\ calls' = Append(calls, [op |-> op, id |-> id, zone |-> zone,
                               snapshot |-> messages[id], outcome |-> "running"])
    /\ UNCHANGED <<backend, grid, client>>

BeginCorrect == \E id \in Ids, z \in CorrectionZones : Begin("correct", id, z)

BeginEscalate == \E id \in Ids : Begin("escalate", id, "NONE")

\* the call's unit of work against the store
Commit(k) ==
    LET c == calls[k]
        done(o) == calls' = [calls EXCEPT ![k].outcome = o]
    IN  /\ c.outcome = "running"
        /\ IF c.op = "escalate" /\ messages[c.id].lifecycle_state = "resolved"
           THEN /\ done("InvalidState")
                /\ response' = "InvalidState"
                /\ UNCHANGED <<messages, events, overrides, lastCorrection>>
           ELSE IF c.op = "escalate"
           THEN \E persisted \in BOOLEAN :
                  IF persisted
                  THEN /\ messages' = [messages EXCEPT
                                         ![c.id] = RowUpdate(@, c.snapshot, c)]
                       /\ events' = Append(events, EscalatedEvent(events, c.id))
                       /\ done("ok")
                       /\ response' = "ok"
                       /\ UNCHANGED <<overrides, lastCorrection>>
                  ELSE /\ done("PersistenceError")
                       /\ response' = "PersistenceError"
                       /\ UNCHANGED <<messages, events, overrides, lastCorrection>>
           ELSE /\ messages' = [messages EXCEPT
                                  ![c.id] = RowUpdate(@, c.snapshot, c)]
                /\ overrides' =
                      UpsertOverride(overrides, messages[c.id].sender_domain, c.zone)
                /\ lastCorrection' =
                      [key |-> messages[c.id].sender_domain, zone |-> c.zone]
                /\ done("ok")
                /\ response' = "ok"
                /\ UNCHANGED events
        /\ UNCHANGED <<triggers, nextId, now, grid, client>>

CommitAny == \E k \in DOMAIN calls : Commit(k)

ConcurrentLifecycles == {"triaged", "resolved"}

\* two stored messages, no request in progress
InitConcurrent ==
    /\ triggers = TriggerTable
    /\ \E l1, l2 \in ConcurrentLifecycles :
          messages = [i \in 1..2 |-> TriageRow(i, IF i = 1 THEN l1 ELSE l2)]
    /\ nextId = 3
    /\ overrides = {}
    /\ lastCorrection = NoCorrection
    /\ events = <<>>
    /\ now = 0
    /\ response = "none"
    /\ grid = NoGrid
    /\ InitClient

NextConcurrent == BeginCorrect \/ BeginEscalate \/ CommitAny

SpecConcurrent == InitConcurrent /\ [][NextConcurrent]_vars

----------------------------------------------------------------------------
(* A call of classify in progress: the reasoning provider is asked under a
   timer, and the call returns on the answer or on the timeout *)

NoOutcome ==
    [zone |-> "NONE", confidence |-> 0, reason |-> "none", risk_score |-> 0,
     provider |-> "not_called", raised |-> FALSE]

\* the call returns with what the fallback made of the provider's response:
\* the classification is persisted with the message
Return(k, resp) ==
    LET c == Fallback(resp)
    IN  /\ calls' = [calls EXCEPT ![k].phase = "returned", ![k].result = c]
        /\ IF c.raised
           THEN /\ response' = "ExternalProviderError"
                /\ UNCHANGED <<messages, nextId>>
           ELSE /\ messages' =
                     [i \in Ids \cup {nextId} |->
                        IF i = nextId
                        THEN NewMessage(nextId, calls[k].msg, c, NoDeadline)
                        ELSE messages[i]]
                /\ nextId' = nextId + 1
                /\ response' = "ok"
        /\ UNCHANGED <<triggers, overrides, lastCorrection, events, now, grid, client>>

\* classify is called: it returns at once from an override or a trusted
\* rule, or asks the provider and waits
StartClassify(msg) ==
    /\ Len(calls) < MaxCalls
    /\ IF CallsProvider(msg, triggers, overrides)
       THEN /\ calls' = Append(calls, [op |-> "classify", msg |-> msg,
                                       phase |-> "waiting", timer |-> "armed",
                                       result |-> NoOutcome])
            /\ UNCHANGED <<backend, grid, client>>
       ELSE LET c == Classify(msg, triggers, overrides, NotCalled)
            IN  /\ calls' = Append(calls, [op |-> "classify", msg |-> msg,
                                           phase |-> "returned", timer |-> "unused",
                                           result |-> c])
                /\ messages' =
                      [i \in Ids \cup {nextId} |->
                         IF i = nextId THEN NewMessage(nextId, msg, c, NoDeadline)
                         ELSE messages[i]]
                /\ nextId' = nextId + 1
                /\ response' = "ok"
                /\ UNCHANGED <<triggers, overrides, lastCorrection, events, now,
                               grid, client>>

StartClassifyAny == \E msg \in SampleMessages : StartClassify(msg)

\* the provider answers, with a usable body, a malformed one or an error
ProviderAnswers(k) ==
    /\ calls[k].phase = "waiting"
    /\ \E resp \in {r \in ProviderResponses : r.kind # "timeout"} : Return(k, resp)

ProviderAnswersAny == \E k \in DOMAIN calls : ProviderAnswers(k)

\* TimeoutFires that gives up the timer and goes on waiting for the provider
TimeoutKeepsWaiting(k) ==
    /\ calls[k].phase = "waiting"
    /\ calls[k].timer = "armed"
    /\ calls' = [calls EXCEPT ![k].timer = "fired"]
    /\ UNCHANGED <<backend, grid, client>>

\* the bounded timeout ends the wait: the provider call counts as failed
TimeoutFires(k) ==
    /\ calls[k].phase = "waiting"
    /\ calls[k].timer = "armed"
    /\ Return(k, [kind |-> "timeout"])

TimeoutFiresAny == \E k \in DOMAIN calls : TimeoutFires(k)

NextTimeout == StartClassifyAny \/ ProviderAnswersAny \/ TimeoutFiresAny

\* a timer that is armed does fire; nothing makes the provider answer
SpecTimeout == Init /\ [][NextTimeout]_vars /\ WF_vars(TimeoutFiresAny)

----------------------------------------------------------------------------
(* The browser: App.tsx. A handler runs up to its await; the rest of it runs
   when the response arrives, with the token its render had captured. *)

Users == {"alice", "bob"}

TokenOf(u) == IF u = "alice" THEN "jwt-alice" ELSE "jwt-bob"

\* the user the server knows a token for
UserOf(tok) == IF tok = "jwt-alice" THEN "alice" ELSE "bob"

EmptyStorage == [docboxrx_token |-> NoToken, docboxrx_user |-> NoUser]

\* what the server can send back: status and the detail of the error body
Replies ==
    {[status |-> "200", detail |-> ""],
     [status |-> "401", detail |-> "Could not validate credentials"],
     [status |-> "404", detail |-> "Message not found"],
     [status |-> "500", detail |-> ""],
     [status |-> "timeout", detail |-> ""]}

\* apiCall that throws on every non-OK response
ApiCallAlwaysThrows(tok, reply) ==
    IF reply.status = "200" THEN [kind |-> "json", message |-> ""]
    ELSE IF reply.status = "timeout"
    THEN [kind |-> "throw", message |-> "Request timed out. Please try again."]
    ELSE [kind |-> "throw",
          message |-> IF reply.detail = "" THEN "Request failed" ELSE reply.detail]

\* apiCall that logs out on a 401 also when it holds no token
ApiCallAny401(tok, reply) ==
    IF reply.status = "200" THEN [kind |-> "json", message |-> ""]
    ELSE IF reply.status = "timeout"
    THEN [kind |-> "throw", message |-> "Request timed out. Please try again."]
    ELSE IF reply.status = "401"
    THEN [kind |-> "null", message |-> "Session expired. Please log in again."]
    ELSE [kind |-> "throw",
          message |-> IF reply.detail = "" THEN "Request failed" ELSE reply.detail]

\* apiCall from the response on: the parsed body, null after the auto-logout,
\* or the Error thrown
ApiCall(tok, reply) ==
    IF reply.status = "200" THEN [kind |-> "json", message |-> ""]
    ELSE IF reply.status = "timeout"
    THEN [kind |-> "throw", message |-> "Request timed out. Please try again."]
    ELSE IF reply.status = "401" /\ tok # NoToken
    THEN [kind |-> "null", message |-> "Session expired. Please log in again."]
    ELSE [kind |-> "throw",
          message |-> IF reply.detail = "" THEN "Request failed" ELSE reply.detail]

\* what apiCall does to App on the way out: the auto-logout on null
ApiCallEffect(r) ==
    IF r.kind = "null"
    THEN /\ token' = NoToken
         /\ user' = NoUser
         /\ storage' = EmptyStorage
         /\ zoneData' = NoZoneData
    ELSE UNCHANGED <<token, user, storage, zoneData>>

\* the replies the server can give to a request: the login endpoints answer
\* anyone, the others answer 200 only to a token
RepliesTo(req) ==
    IF req.kind = "login" \/ req.token # NoToken THEN Replies
    ELSE {r \in Replies : r.status # "200"}

NewRequest(kind, tok, origin, arg) ==
    [kind |-> kind, token |-> tok, origin |-> origin, arg |-> arg,
     status |-> "none", outcome |-> "pending", message |-> ""]

\* the requests the user has started, as opposed to those a handler or an
\* effect sent after them
Started == {k \in DOMAIN requests : requests[k].origin = "user"}

Pending == {k \in DOMAIN requests : requests[k].outcome = "pending"}

\* the endpoints whose body the page puts on screen as it is
FetchKinds == {"by-zone", "grid"}

\* a request answered earlier: only that it was made, and for a fetch whether
\* it was served, is remembered
Spent(req) ==
    [kind |-> req.kind, token |-> NoToken, origin |-> req.origin, arg |-> 0,
     status |-> IF req.kind \in FetchKinds /\ req.status = "200" THEN "200"
                ELSE "none",
     outcome |-> "spent", message |-> ""]

\* request k is answered and apiCall is through with it; message is the text
\* of the alert or of the Error at hand
Answered(k, reply, r) ==
    [j \in DOMAIN requests |->
        IF j = k
        THEN [requests[j] EXCEPT !.status = reply.status, !.outcome = r.kind,
                                 !.message = r.message]
        ELSE IF requests[j].outcome = "pending" THEN requests[j]
        ELSE Spent(requests[j])]

\* the /api/messages/by-zone bodies: message ids per zone
ZoneShapes ==
    {[STAT |-> <<>>, TODAY |-> <<>>, THIS_WEEK |-> <<>>, LATER |-> <<>>],
     [STAT |-> <<1, 2>>, TODAY |-> <<3>>, THIS_WEEK |-> <<>>, LATER |-> <<>>],
     [STAT |-> <<>>, TODAY |-> <<2>>, THIS_WEEK |-> <<3>>, LATER |-> <<>>],
     [STAT |-> <<>>, TODAY |-> <<>>, THIS_WEEK |-> <<3>>, LATER |-> <<1>>],
     [STAT |-> <<>>, TODAY |-> <<>>, THIS_WEEK |-> <<>>, LATER |-> <<3, 1>>]}

\* an inbox with something urgent in it
InboxShape ==
    [STAT |-> <<1, 2>>, TODAY |-> <<3>>, THIS_WEEK |-> <<>>, LATER |-> <<>>]

\* the body the server sends the holder of the token for request k
ZoneBody(k, tok, shape) == [owner |-> UserOf(tok), request |-> k, zones |-> shape]

\* FirstUrgent that takes the first message of the first zone listed
FirstUrgentAnyZone(zd) ==
    IF zd.zones.LATER # <<>>
    THEN [id |-> zd.zones.LATER[1], owner |-> zd.owner]
    ELSE IF zd.zones.STAT # <<>>
    THEN [id |-> zd.zones.STAT[1], owner |-> zd.owner]
    ELSE IF zd.zones.TODAY # <<>>
    THEN [id |-> zd.zones.TODAY[1], owner |-> zd.owner]
    ELSE NoMessage

\* zones.STAT?.[0] || zones.TODAY?.[0] || zones.THIS_WEEK?.[0] || zones.LATER?.[0]
FirstUrgent(zd) ==
    IF zd.zones.STAT # <<>>
    THEN [id |-> zd.zones.STAT[1], owner |-> zd.owner]
    ELSE IF zd.zones.TODAY # <<>>
    THEN [id |-> zd.zones.TODAY[1], owner |-> zd.owner]
    ELSE IF zd.zones.THIS_WEEK # <<>>
    THEN [id |-> zd.zones.THIS_WEEK[1], owner |-> zd.owner]
    ELSE IF zd.zones.LATER # <<>>
    THEN [id |-> zd.zones.LATER[1], owner |-> zd.owner]
    ELSE NoMessage

\* SelectOnZoneData that selects anew with every zoneData
SelectOnZoneDataAlways(zd, sel) ==
    IF zd # NoZoneData /\ FirstUrgent(zd) # NoMessage THEN FirstUrgent(zd) ELSE sel

\* useEffect [zoneData]: the selection after zoneData became zd
SelectOnZoneData(zd, sel) ==
    IF zd # NoZoneData /\ sel = NoMessage /\ FirstUrgent(zd) # NoMessage
    THEN FirstUrgent(zd)
    ELSE sel

\* useEffect [token]: fetchMessages() and fetchActionCenter() go out when the
\* token changes to one
OnToken(reqs, old, new) ==
    IF new # old /\ new # NoToken
    THEN reqs \o <<NewRequest("by-zone", new, "effect", 0),
                   NewRequest("action-center", new, "effect", 0)>>
    ELSE reqs

\* the /api/action-center body the server sends the holder of the token
ActionCenterBody(tok) ==
    [owner |-> UserOf(tok), urgent_items |-> {1}, snoozed_due |-> {},
     action_items |-> {1, 3}, total_action_items |-> 2]

\* the page is loaded: state starts over, the saved session is restored
PageLoad ==
    LET saved == /\ storage.docboxrx_token # NoToken
                 /\ storage.docboxrx_user # NoUser
    IN  /\ token' = IF saved THEN storage.docboxrx_token ELSE NoToken
        /\ user' = IF saved THEN storage.docboxrx_user ELSE NoUser
        /\ requests' = OnToken(<<>>, NoToken, token')
        /\ loading' = (token' # NoToken)
        /\ zoneData' = NoZoneData
        /\ selectedMessage' = NoMessage
        /\ actionCenter' = NoActionCenter
        /\ jone5Message' = ""
        /\ selectedItem' = NoItem
        /\ gridLoading' = FALSE
        /\ grid' = NoGrid
        /\ UNCHANGED <<backend, storage, calls>>

\* handleLogin up to its await
SubmitLogin(u) ==
    /\ user = NoUser
    /\ ~loading
    /\ Cardinality(Started) < MaxRequests
    /\ loading' = TRUE
    /\ requests' = Append(requests, NewRequest("login", token, "user", u))
    /\ UNCHANGED <<backend, grid, calls, token, user, storage, zoneData,
                   selectedMessage, actionCenter, jone5Message, selectedItem,
                   gridLoading>>

SubmitLoginAny == \E u \in Users : SubmitLogin(u)

\* handleLogin from the response on, and the effect of the new token
LoginResponse(k, reply) ==
    LET req == requests[k]
        r == ApiCall(req.token, reply)
        u == req.arg
    IN  /\ req.kind = "login"
        /\ req.outcome = "pending"
        /\ IF r.kind = "json"
           THEN /\ token' = TokenOf(u)
                /\ user' = u
                /\ storage' = [docboxrx_token |-> TokenOf(u), docboxrx_user |-> u]
                /\ jone5Message' = "Welcome! jonE5 is ready."
                /\ requests' = OnToken(Answered(k, reply, r), token, TokenOf(u))
                /\ loading' = (TokenOf(u) # token)
                /\ UNCHANGED zoneData
           ELSE IF r.kind = "null"
           THEN /\ token' = NoToken
                /\ user' = NoUser
                /\ storage' = EmptyStorage
                /\ zoneData' = NoZoneData
                /\ requests' = Answered(k, reply, r)
                /\ loading' = FALSE
                /\ UNCHANGED jone5Message
           ELSE /\ requests' = Answered(k, reply, r)
                /\ loading' = FALSE
                /\ UNCHANGED <<token, user, storage, zoneData, jone5Message>>
        /\ UNCHANGED <<backend, grid, calls, selectedMessage, actionCenter,
                       selectedItem,
                   gridLoading>>

LoginResponseAny ==
    \E k \in DOMAIN requests : \E reply \in RepliesTo(requests[k]) :
        LoginResponse(k, reply)

\* handleLogout that also drops the selection and the action center
HandleLogoutClean ==
    /\ user # NoUser
    /\ token' = NoToken
    /\ user' = NoUser
    /\ zoneData' = NoZoneData
    /\ selectedMessage' = NoMessage
    /\ actionCenter' = NoActionCenter
    /\ storage' = EmptyStorage
    /\ UNCHANGED <<backend, grid, calls, loading, requests, jone5Message,
                   selectedItem,
                   gridLoading>>

\* handleLogout that forgets the saved user and keeps the saved token
HandleLogoutKeepsToken ==
    /\ user # NoUser
    /\ token' = NoToken
    /\ user' = NoUser
    /\ zoneData' = NoZoneData
    /\ storage' = [storage EXCEPT !.docboxrx_user = NoUser]
    /\ UNCHANGED <<backend, grid, calls, selectedMessage, actionCenter, loading,
                   requests, jone5Message, selectedItem,
                   gridLoading>>

\* handleLogout
HandleLogout ==
    /\ user # NoUser
    /\ token' = NoToken
    /\ user' = NoUser
    /\ zoneData' = NoZoneData
    /\ storage' = EmptyStorage
    /\ UNCHANGED <<backend, grid, calls, selectedMessage, actionCenter, loading,
                   requests, jone5Message, selectedItem,
                   gridLoading>>

\* fetchMessages up to its await, from the refresh button
FetchMessages ==
    /\ user # NoUser
    /\ ~loading
    /\ Cardinality(Started) < MaxRequests
    /\ loading' = TRUE
    /\ requests' = Append(requests, NewRequest("by-zone", token, "user", 0))
    /\ UNCHANGED <<backend, grid, calls, token, user, storage, zoneData,
                   selectedMessage, actionCenter, jone5Message, selectedItem,
                   gridLoading>>

\* fetchMessages from the response on, and the effect of the new zoneData
ByZoneResponse(k, reply, shape) ==
    LET req == requests[k]
        r == ApiCall(req.token, reply)
    IN  /\ req.kind = "by-zone"
        /\ req.outcome = "pending"
        /\ requests' = Answered(k, reply, r)
        /\ loading' = FALSE
        /\ IF r.kind = "json"
           THEN /\ zoneData' = ZoneBody(k, req.token, shape)
                /\ selectedMessage' =
                      SelectOnZoneData(ZoneBody(k, req.token, shape), selectedMessage)
                /\ UNCHANGED <<token, user, storage>>
           ELSE IF r.kind = "null"
           THEN /\ token' = NoToken
                /\ user' = NoUser
                /\ storage' = EmptyStorage
                /\ zoneData' = NoZoneData
                /\ UNCHANGED selectedMessage
           ELSE UNCHANGED <<token, user, storage, zoneData, selectedMessage>>
        /\ UNCHANGED <<backend, grid, calls, actionCenter, jone5Message, selectedItem,
                   gridLoading>>

ByZoneResponseAny ==
    \E k \in DOMAIN requests : \E reply \in RepliesTo(requests[k]) :
        \E shape \in ZoneShapes : ByZoneResponse(k, reply, shape)

\* fetchActionCenter from the response on
ActionCenterResponse(k, reply) ==
    LET req == requests[k]
        r == ApiCall(req.token, reply)
    IN  /\ req.kind = "action-center"
        /\ req.outcome = "pending"
        /\ requests' = Answered(k, reply, r)
        /\ IF r.kind = "json"
           THEN /\ actionCenter' = ActionCenterBody(req.token)
                /\ UNCHANGED <<token, user, storage, zoneData>>
           ELSE IF r.kind = "null"
           THEN /\ token' = NoToken
                /\ user' = NoUser
                /\ storage' = EmptyStorage
                /\ zoneData' = NoZoneData
                /\ UNCHANGED actionCenter
           ELSE UNCHANGED <<token, user, storage, zoneData, actionCenter>>
        /\ UNCHANGED <<backend, grid, calls, selectedMessage, loading, jone5Message,
                       selectedItem,
                   gridLoading>>

ActionCenterResponseAny ==
    \E k \in DOMAIN requests : \E reply \in RepliesTo(requests[k]) :
        ActionCenterResponse(k, reply)

\* handleDelete of the selected message, up to its await
DeleteSelected ==
    /\ user # NoUser
    /\ selectedMessage # NoMessage
    /\ Cardinality(Started) < MaxRequests
    /\ requests' =
          Append(requests, NewRequest("delete", token, "user", selectedMessage.id))
    /\ UNCHANGED <<backend, grid, calls, token, user, storage, zoneData,
                   selectedMessage, actionCenter, loading, jone5Message, selectedItem,
                   gridLoading>>

\* handleDelete from the response on: its render had the deleted message
\* selected, and fetchMessages() goes out with its token
DeleteResponse(k, reply) ==
    LET req == requests[k]
        r == ApiCall(req.token, reply)
    IN  /\ req.kind = "delete"
        /\ req.outcome = "pending"
        /\ IF r.kind = "throw"
           THEN /\ requests' = Answered(k, reply, r)
                /\ UNCHANGED <<token, user, storage, zoneData, selectedMessage,
                               loading>>
           ELSE /\ selectedMessage' = NoMessage
                /\ loading' = TRUE
                /\ requests' = Append(Answered(k, reply, r),
                                      NewRequest("by-zone", req.token, "handler", 0))
                /\ IF r.kind = "null"
                   THEN /\ token' = NoToken
                        /\ user' = NoUser
                        /\ storage' = EmptyStorage
                        /\ zoneData' = NoZoneData
                   ELSE UNCHANGED <<token, user, storage, zoneData>>
        /\ UNCHANGED <<backend, grid, calls, actionCenter, jone5Message, selectedItem,
                   gridLoading>>

DeleteResponseAny ==
    \E k \in DOMAIN requests : \E reply \in RepliesTo(requests[k]) :
        DeleteResponse(k, reply)

ByZoneResponseInbox ==
    \E k \in DOMAIN requests : \E reply \in RepliesTo(requests[k]) :
        ByZoneResponse(k, reply, InboxShape)

NextApp ==
    \/ PageLoad
    \/ SubmitLoginAny
    \/ LoginResponseAny
    \/ HandleLogout
    \/ FetchMessages
    \/ ByZoneResponseInbox
    \/ ActionCenterResponseAny

SpecApp == Init /\ [][NextApp]_vars

\* the page loaded with the session of alice saved: both fetches are out
InitSignedIn ==
    /\ triggers = TriggerTable
    /\ messages = [i \in {} |-> 0]
    /\ nextId = 1
    /\ overrides = {}
    /\ lastCorrection = NoCorrection
    /\ events = <<>>
    /\ now = 0
    /\ response = "none"
    /\ grid = NoGrid
    /\ token = TokenOf("alice")
    /\ user = "alice"
    /\ storage = [docboxrx_token |-> TokenOf("alice"), docboxrx_user |-> "alice"]
    /\ zoneData = NoZoneData
    /\ selectedMessage = NoMessage
    /\ actionCenter = NoActionCenter
    /\ loading = TRUE
    /\ requests = OnToken(<<>>, NoToken, TokenOf("alice"))
    /\ jone5Message = ""
    /\ selectedItem = NoItem
    /\ gridLoading = FALSE
    /\ calls = <<>>

NextSelect ==
    \/ FetchMessages
    \/ ByZoneResponseAny
    \/ ActionCenterResponseAny
    \/ DeleteSelected
    \/ DeleteResponseAny

SpecSelect == InitSignedIn /\ [][NextSelect]_vars

----------------------------------------------------------------------------
(* The inbox of a signed-in user: pasting an email in. *)

\* handleIngest up to its await
HandleIngest ==
    /\ user # NoUser
    /\ ~loading
    /\ Cardinality(Started) < MaxRequests
    /\ loading' = TRUE
    /\ requests' = Append(requests, NewRequest("ingest", token, "user", 0))
    /\ UNCHANGED <<backend, grid, calls, token, user, storage, zoneData,
                   selectedMessage, actionCenter, jone5Message, selectedItem,
                   gridLoading>>

\* handleIngest that leaves the loading flag to the fetchMessages() it started
IngestResponseLoadingKept(k, reply) ==
    LET req == requests[k]
        r == ApiCall(req.token, reply)
    IN  /\ req.kind = "ingest"
        /\ req.outcome = "pending"
        /\ ApiCallEffect(r)
        /\ IF r.kind = "json"
           THEN /\ jone5Message' = "jonE5 sorted the message."
                /\ loading' = TRUE
                /\ requests' = Append(Answered(k, reply, r),
                                      NewRequest("by-zone", req.token, "handler", 0))
           ELSE /\ loading' = FALSE
                /\ requests' = Answered(k, reply, r)
                /\ UNCHANGED jone5Message
        /\ UNCHANGED <<backend, grid, calls, selectedMessage, actionCenter,
                       selectedItem, gridLoading>>

\* handleIngest from the response on. With a body: the notification, then
\* fetchMessages() sets loading and sends its request, then finally clears
\* loading. With null, result.jone5_message throws into the catch.
IngestResponse(k, reply) ==
    LET req == requests[k]
        r == ApiCall(req.token, reply)
    IN  /\ req.kind = "ingest"
        /\ req.outcome = "pending"
        /\ ApiCallEffect(r)
        /\ loading' = FALSE
        /\ IF r.kind = "json"
           THEN /\ jone5Message' = "jonE5 sorted the message."
                /\ requests' = Append(Answered(k, reply, r),
                                      NewRequest("by-zone", req.token, "handler", 0))
           ELSE /\ requests' = Answered(k, reply, r)
                /\ UNCHANGED jone5Message
        /\ UNCHANGED <<backend, grid, calls, selectedMessage, actionCenter,
                       selectedItem, gridLoading>>

IngestResponseAny ==
    \E k \in DOMAIN requests : \E reply \in RepliesTo(requests[k]) :
        IngestResponse(k, reply)

NextInbox ==
    \/ FetchMessages
    \/ HandleIngest
    \/ IngestResponseAny
    \/ ByZoneResponseInbox
    \/ ActionCenterResponseAny

SpecInbox == InitSignedIn /\ [][NextInbox]_vars

----------------------------------------------------------------------------
(* The Decision Deck in the browser: components/GridView.tsx, mounted by
   App with owner "lead_doctor" and onNotify = setJone5Message. *)

GridOwner == "lead_doctor"

\* the /api/state/grid body the server sends to request k
GridBody(k) ==
    [owner |-> GridOwner, request |-> k,
     zones |-> <<[zone |-> "STAT", items |-> <<1, 2>>],
                 [zone |-> "TODAY", items |-> <<3>>]>>]

\* the items GridView renders a button for
GridButtons(g) ==
    IF g = NoGrid THEN {}
    ELSE UNION {{z.items[i] : i \in DOMAIN z.items} :
                    z \in {g.zones[j] : j \in DOMAIN g.zones}}

\* fetchGrid up to its await, from the Refresh button
RefreshGrid ==
    /\ token # NoToken
    /\ ~gridLoading
    /\ Cardinality(Started) < MaxRequests
    /\ gridLoading' = TRUE
    /\ requests' = Append(requests, NewRequest("grid", token, "user", 0))
    /\ UNCHANGED <<backend, grid, calls, token, user, storage, zoneData,
                   selectedMessage, actionCenter, loading, jone5Message,
                   selectedItem>>

\* fetchGrid from the response on
GridResponse(k, reply) ==
    LET req == requests[k]
        r == ApiCall(req.token, reply)
    IN  /\ req.kind = "grid"
        /\ req.outcome = "pending"
        /\ requests' = Answered(k, reply, r)
        /\ ApiCallEffect(r)
        /\ grid' = IF r.kind = "json" THEN GridBody(k) ELSE grid
        /\ gridLoading' = FALSE
        /\ UNCHANGED <<backend, calls, selectedMessage, actionCenter, loading,
                       jone5Message, selectedItem>>

GridResponseAny ==
    \E k \in DOMAIN requests : \E reply \in RepliesTo(requests[k]) :
        GridResponse(k, reply)

\* a click on the button of an item
SelectItem(i) ==
    /\ token # NoToken
    /\ i \in GridButtons(grid)
    /\ selectedItem' = i
    /\ UNCHANGED <<backend, grid, calls, token, user, storage, zoneData,
                   selectedMessage, actionCenter, loading, requests,
                   jone5Message, gridLoading>>

SelectItemAny == \E i \in GridButtons(grid) : SelectItem(i)

\* handleEscalate up to its await
HandleEscalate ==
    /\ token # NoToken
    /\ selectedItem # NoItem
    /\ Cardinality(Started) < MaxRequests
    /\ requests' =
          Append(requests, NewRequest("escalate", token, "user", selectedItem))
    /\ UNCHANGED <<backend, grid, calls, token, user, storage, zoneData,
                   selectedMessage, actionCenter, loading, jone5Message,
                   selectedItem, gridLoading>>

\* handleEscalate that goes on only with a body in hand
EscalateResponseChecksBody(k, reply) ==
    LET req == requests[k]
        r == ApiCall(req.token, reply)
    IN  /\ req.kind = "escalate"
        /\ req.outcome = "pending"
        /\ ApiCallEffect(r)
        /\ IF r.kind = "json"
           THEN /\ jone5Message' = "Escalated to lead doctor."
                /\ selectedItem' = NoItem
                /\ gridLoading' = TRUE
                /\ requests' = Append(Answered(k, reply, r),
                                      NewRequest("grid", req.token, "handler", 0))
           ELSE /\ jone5Message' = r.message
                /\ requests' = Answered(k, reply, r)
                /\ UNCHANGED <<selectedItem, gridLoading>>
        /\ UNCHANGED <<backend, grid, calls, selectedMessage, actionCenter,
                       loading>>

\* handleEscalate from the response on: whatever apiCall returns, null
\* included, counts as done, and fetchGrid() goes out with its token
EscalateResponse(k, reply) ==
    LET req == requests[k]
        r == ApiCall(req.token, reply)
    IN  /\ req.kind = "escalate"
        /\ req.outcome = "pending"
        /\ ApiCallEffect(r)
        /\ IF r.kind = "throw"
           THEN /\ jone5Message' = r.message
                /\ requests' = Answered(k, reply, r)
                /\ UNCHANGED <<selectedItem, gridLoading>>
           ELSE /\ jone5Message' = "Escalated to lead doctor."
                /\ selectedItem' = NoItem
                /\ gridLoading' = TRUE
                /\ requests' = Append(Answered(k, reply, r),
                                      NewRequest("grid", req.token, "handler", 0))
        /\ UNCHANGED <<backend, grid, calls, selectedMessage, actionCenter,
                       loading>>

EscalateResponseAny ==
    \E k \in DOMAIN requests : \E reply \in RepliesTo(requests[k]) :
        EscalateResponse(k, reply)

\* the signed-in page with the Decision Deck mounted: its fetchGrid is out
InitGridView ==
    /\ triggers = TriggerTable
    /\ messages = [i \in {} |-> 0]
    /\ nextId = 1
    /\ overrides = {}
    /\ lastCorrection = NoCorrection
    /\ events = <<>>
    /\ now = 0
    /\ response = "none"
    /\ grid = NoGrid
    /\ token = TokenOf("alice")
    /\ user = "alice"
    /\ storage = [docboxrx_token |-> TokenOf("alice"), docboxrx_user |-> "alice"]
    /\ zoneData = NoZoneData
    /\ selectedMessage = NoMessage
    /\ actionCenter = NoActionCenter
    /\ loading = FALSE
    /\ requests = <<NewRequest("grid", TokenOf("alice"), "effect", 0)>>
    /\ jone5Message = ""
    /\ selectedItem = NoItem
    /\ gridLoading = TRUE
    /\ calls = <<>>

NextGridView ==
    \/ RefreshGrid
    \/ GridResponseAny
    \/ SelectItemAny
    \/ HandleEscalate
    \/ EscalateResponseAny

SpecGridView == InitGridView /\ [][NextGridView]_vars

----------------------------------------------------------------------------
(* Properties *)

\* a step that classified and stored a new message, messages'[nextId]
Ingested == nextId' = nextId + 1

MatchesZone(m, z) ==
    \E k \in DOMAIN triggers : triggers[k].zone = z /\ RowMatches(triggers[k], m)

MatchedZones(m) == {z \in Zones : MatchesZone(m, z)}

\* the most urgent zone with a matching trigger
TopZone(m) ==
    CHOOSE z \in MatchedZones(m) :
        \A y \in MatchedZones(m) : ZoneRank(z) <= ZoneRank(y)

HasOverride(ovs, m) == OverrideZones(ovs, m.sender_domain) # {}

\* the confidence the Rules Engine documents for each zone's triggers
DocumentedConfidence(z) ==
    CASE z = "STAT" -> 90
      [] z = "TODAY" -> 85
      [] z = "THIS_WEEK" -> 75
      [] z = "LATER" -> 60

(* C1, as amended: a message that matches a STAT trigger keyword or STAT
   sender domain, and whose sender domain has no stored override, is
   classified STAT with confidence >= 0.90, whatever TODAY, THIS_WEEK or
   LATER triggers it also matches. *)
C1_StatPriority ==
    [][Ingested =>
        LET m == messages'[nextId]
        IN  (MatchesZone(m, "STAT") /\ ~HasOverride(overrides, m))
                => (m.zone = "STAT" /\ m.confidence >= 90)]_vars

\* a STAT keyword together with a LATER keyword, classified STAT by the rule
C1_Witness ==
    \E i \in Ids :
        /\ MatchesZone(messages[i], "STAT")
        /\ MatchesZone(messages[i], "LATER")
        /\ ~messages[i].corrected
        /\ messages[i].reason = "rule"
        /\ messages[i].zone = "STAT"
        /\ messages[i].confidence >= 90

(* C1 as stated: every message that matches a STAT trigger is classified
   STAT with confidence >= 0.90. *)
C1_Original ==
    [][Ingested =>
        LET m == messages'[nextId]
        IN  MatchesZone(m, "STAT") => (m.zone = "STAT" /\ m.confidence >= 90)]_vars

(* C2: when no trigger matches and the call to the external reasoning
   provider fails, classify returns zone LATER with the one fixed low
   confidence, the request succeeds, and no request ever ends in a provider
   error. *)
C2_DegradesToLater ==
    /\ [](response # "ExternalProviderError")
    /\ [][(/\ Ingested
            /\ MatchedZones(messages'[nextId]) = {}
            /\ ~HasOverride(overrides, messages'[nextId])
            /\ messages'[nextId].provider # "ok")
           => /\ response' = "ok"
              /\ messages'[nextId].provider = "failed"
              /\ messages'[nextId].zone = "LATER"
              /\ messages'[nextId].confidence = DegradedConfidence
              /\ messages'[nextId].confidence < FallbackThreshold
              /\ messages'[nextId].risk_score = RiskScore("LATER")]_vars
    /\ [](\A resp \in ProviderResponses :
             (\/ resp.kind \in {"timeout", "error"}
              \/ resp.kind = "body" /\ resp.zone \notin Zones)
                => /\ Fallback(resp).zone = "LATER"
                   /\ Fallback(resp).confidence = DegradedConfidence
                   /\ ~Fallback(resp).raised)

C2_Witness ==
    \E i \in Ids :
        /\ MatchedZones(messages[i]) = {}
        /\ messages[i].provider = "failed"
        /\ ~messages[i].corrected
        /\ messages[i].zone = "LATER"
        /\ messages[i].confidence = DegradedConfidence
        /\ response = "ok"

(* C3, as amended: for a message whose sender domain has no stored override,
   classify calls the external reasoning fallback if and only if no trigger
   matches or the first matching trigger's confidence is below 0.70; when the
   first matching trigger has confidence >= 0.70 the result is that trigger's
   zone and confidence. *)
C3_FallbackIff ==
    [][Ingested =>
        LET m == messages'[nextId]
            weak == \/ MatchedZones(m) = {}
                    \/ DocumentedConfidence(TopZone(m)) < 70
        IN  ~HasOverride(overrides, m) =>
              /\ (m.provider # "not_called") <=> weak
              /\ ~weak => /\ m.zone = TopZone(m)
                          /\ m.confidence = DocumentedConfidence(TopZone(m))]_vars

\* THIS_WEEK at 0.75 decided by the rule, and a message sent to the fallback
C3_Witness ==
    \E i, j \in Ids :
        /\ messages[i].reason = "rule"
        /\ messages[i].zone = "THIS_WEEK"
        /\ messages[i].confidence = 75
        /\ messages[i].provider = "not_called"
        /\ MatchedZones(messages[j]) = {}
        /\ messages[j].provider # "not_called"

(* C3 as stated: the fallback is called if and only if no trigger matches or
   the matched confidence is below 0.70, and a trigger at >= 0.70 decides the
   result. *)
C3_Original ==
    [][Ingested =>
        LET m == messages'[nextId]
            weak == \/ MatchedZones(m) = {}
                    \/ DocumentedConfidence(TopZone(m)) < 70
        IN  /\ (m.provider # "not_called") <=> weak
            /\ ~weak => /\ m.zone = TopZone(m)
                        /\ m.confidence = DocumentedConfidence(TopZone(m))]_vars

OnlyLater(m) == MatchedZones(m) = {"LATER"}

(* C4, as amended: a message that matches only LATER triggers and has no
   override always goes to the external reasoning provider; it is classified
   LATER when the provider fails, and otherwise gets the zone the provider
   answers, so its zone differs from LATER only by the provider's answer. *)
C4_LaterOnly ==
    [][Ingested =>
        LET m == messages'[nextId]
        IN  (OnlyLater(m) /\ ~HasOverride(overrides, m)) =>
              /\ m.provider \in {"ok", "failed"}
              /\ m.provider = "failed" => m.zone = "LATER"
              /\ m.zone # "LATER" => m.reason = "llm"]_vars

C4_Witness ==
    \E i \in Ids :
        /\ OnlyLater(messages[i])
        /\ ~messages[i].corrected
        /\ messages[i].provider = "failed"
        /\ messages[i].zone = "LATER"

(* C4 as stated: a message that matches only LATER triggers and has no
   override is classified LATER whatever the provider answers. *)
C4_Original ==
    [][Ingested =>
        LET m == messages'[nextId]
        IN  (OnlyLater(m) /\ ~HasOverride(overrides, m)) => m.zone = "LATER"]_vars

(* C5: while a correction of a message from sender domain d to zone Z is the
   stored one for d, every classify of a message from d returns Z and neither
   the trigger table nor the provider decides, both when no trigger matches
   and when a trigger of another zone matches. *)
C5_OverridePrecedence ==
    [][Ingested =>
        LET m == messages'[nextId]
        IN  /\ \A r \in overrides :
                  r.key = m.sender_domain
                      => /\ m.zone = r.zone
                         /\ m.reason = "override"
                         /\ m.provider = "not_called"
            /\ (lastCorrection # NoCorrection
                    /\ lastCorrection.key = m.sender_domain)
                  => m.zone = lastCorrection.zone]_vars

\* a message corrected to Z, then one from the same domain whose triggers
\* name other zones only, classified Z
C5_Witness ==
    \E i, j \in Ids :
        /\ messages[i].corrected
        /\ lastCorrection = [key |-> messages[i].sender_domain,
                             zone |-> messages[i].zone]
        /\ j > i
        /\ messages[j].sender_domain = messages[i].sender_domain
        /\ ~messages[j].corrected
        /\ messages[j].reason = "override"
        /\ messages[j].zone = messages[i].zone
        /\ MatchedZones(messages[j]) # {}
        /\ messages[j].zone \notin MatchedZones(messages[j])

(* C6: the override store holds at most one zone per sender signal, the zone
   of the most recent correction for that signal; a correction replaces only
   its own signal's row, and neither the passage of time nor classify changes
   or removes an override. *)
C6_LastWriteWins ==
    /\ [](\A r1, r2 \in overrides : r1.key = r2.key => r1.zone = r2.zone)
    /\ [](lastCorrection # NoCorrection
            => OverrideZones(overrides, lastCorrection.key)
                  = {lastCorrection.zone})
    /\ [][\A id \in 1..MaxLearned, z \in Zones :
            (id \in Ids /\ Correct(id, z))
                => /\ OverrideZones(overrides', messages[id].sender_domain) = {z}
                   /\ \A r \in overrides :
                         r.key # messages[id].sender_domain => r \in overrides']_vars
    /\ [][(Tick \/ IngestLearning) => overrides' = overrides]_vars
    /\ [][\A r \in overrides : OverrideZones(overrides', r.key) # {}]_vars

\* two corrections for one signal to different zones, and time gone by
C6_Witness ==
    \E i, j \in Ids :
        /\ i # j
        /\ messages[i].sender_domain = messages[j].sender_domain
        /\ messages[i].corrected
        /\ messages[j].corrected
        /\ messages[i].zone # messages[j].zone
        /\ now > 0
        /\ OverrideZones(overrides, messages[j].sender_domain) = {messages[j].zone}
        /\ Cardinality(overrides) = 1

SameResult(a, b) ==
    /\ a.zone = b.zone
    /\ a.confidence = b.confidence
    /\ a.risk_score = b.risk_score

SameInputs(a, b) ==
    /\ a.sender = b.sender
    /\ a.subject = b.subject
    /\ a.body = b.body

SenderDomains == {SenderDomain(m.sender) : m \in SampleMessages}

\* every override store with at most one zone per sender domain
OverrideStores ==
    {ovs \in SUBSET [key : SenderDomains, zone : Zones] :
        \A r1, r2 \in ovs : r1.key = r2.key => r1.zone = r2.zone}

\* where an override or a trusted trigger decides, the result is the same
\* whatever the provider would have answered
ClassifyIgnoresProvider ==
    \A ovs \in OverrideStores, msg \in SampleMessages :
        ~CallsProvider(msg, TriggerTable, ovs)
            => \A r \in ProviderResponses :
                  SameResult(Classify(msg, TriggerTable, ovs, r),
                             Classify(msg, TriggerTable, ovs, NotCalled))

(* C7, as amended: classify is a function of (sender, subject, body), the
   trigger table, the overrides and, when the fallback is called, the
   provider's answer: two calls with the same inputs, table and overrides
   return the same zone, confidence and risk_score whenever an override or a
   trigger of confidence >= 0.70 decides, and no call changes the trigger
   table. *)
C7_Deterministic ==
    /\ [](/\ triggers = TriggerTable
          /\ overrides \in OverrideStores
          /\ ClassifyIgnoresProvider)
    /\ [](\A i, j \in Ids :
             (/\ SameInputs(messages[i], messages[j])
              /\ messages[i].reason = "rule"
              /\ messages[j].reason = "rule")
                => /\ messages[i].confidence = messages[j].confidence
                   /\ messages[i].risk_score = messages[j].risk_score
                   /\ (~messages[i].corrected /\ ~messages[j].corrected)
                         => messages[i].zone = messages[j].zone)
    /\ [][triggers' = triggers]_vars

\* the same message classified twice by the rule, with the same result
C7_Witness ==
    \E i, j \in Ids :
        /\ i # j
        /\ SameInputs(messages[i], messages[j])
        /\ messages[i].reason = "rule"
        /\ messages[j].reason = "rule"
        /\ overrides = {}
        /\ SameResult(messages[i], messages[j])

(* C7 as stated: two classify calls with the same (sender, subject, body),
   the same trigger table and the same overrides (here: none, no correction
   made yet) return the same zone, confidence and risk_score. *)
C7_Original ==
    overrides = {}
        => \A i, j \in Ids :
              SameInputs(messages[i], messages[j])
                  => SameResult(messages[i], messages[j])

(* C8: across ingest, correct, status and escalate operations, a message is
   stored with the zone, confidence and risk_score classify gave for its
   inputs and with corrected = false; a stored zone changes only in a step
   that leaves corrected = true, the flag is never cleared, and every
   correction sets it. *)
C8_ZoneConsistent ==
    /\ [][Ingested =>
            LET m == messages'[nextId]
            IN  /\ ~m.corrected
                /\ \E resp \in Answers(m) :
                      SameResult(m, Classify(m, triggers, overrides, resp))]_vars
    /\ [][\A i \in Ids :
            /\ messages'[i].zone # messages[i].zone => messages'[i].corrected
            /\ messages[i].corrected => messages'[i].corrected]_vars
    /\ [][\A id \in TrackedIds, z \in Zones :
            (id \in Ids /\ Correct(id, z))
                => (messages'[id].corrected /\ messages'[id].zone = z)]_vars
    /\ [](\A i \in Ids :
             ~messages[i].corrected
                => /\ messages[i].risk_score = RiskScore(messages[i].zone)
                   /\ messages[i].reason = "rule"
                         => messages[i].zone = TopZone(messages[i]))

\* a corrected message, escalated, whose zone is not the rule's
C8_Witness ==
    \E i \in Ids :
        /\ messages[i].corrected
        /\ messages[i].reason = "rule"
        /\ messages[i].zone # TopZone(messages[i])
        /\ messages[i].lifecycle_state = "overdue"

(* C9: the risk_score classify produces lies in [0, 1], never rises as the
   zone gets less urgent, and is >= 0.8 for every message classified STAT, so
   the grid rule buckets that message as STAT. *)
C9_RiskMonotonic ==
    /\ \A z1, z2 \in Zones :
          ZoneRank(z1) <= ZoneRank(z2) => RiskScore(z1) >= RiskScore(z2)
    /\ \A i \in Ids :
          /\ messages[i].risk_score >= 0
          /\ messages[i].risk_score <= 100
          /\ (~messages[i].corrected /\ messages[i].zone = "STAT")
                => /\ messages[i].risk_score >= 80
                   /\ Included(messages[i], "ALL")
                   /\ ZoneForMessage(messages[i], now) = "STAT"
    /\ \A i, j \in Ids :
          (/\ ~messages[i].corrected
           /\ ~messages[j].corrected
           /\ ZoneRank(messages[i].zone) <= ZoneRank(messages[j].zone))
              => messages[i].risk_score >= messages[j].risk_score

\* a STAT and a LATER classification side by side
C9_Witness ==
    \E i, j \in Ids :
        /\ ~messages[i].corrected
        /\ ~messages[j].corrected
        /\ messages[i].zone = "STAT"
        /\ messages[j].zone = "LATER"
        /\ messages[i].risk_score >= 80
        /\ messages[i].risk_score > messages[j].risk_score

\* the ids listed under display zone z of a grid response
ZoneIds(g, z) ==
    UNION {{g.zones[k].items[n].id : n \in DOMAIN g.zones[k].items} :
              k \in {x \in DOMAIN g.zones : g.zones[x].zone = z}}

(* C10: a grid query lists every included message under exactly one display
   zone: STAT when risk_score >= 0.8; otherwise TODAY when the deadline is at
   most 24 hours from now; otherwise THIS_WEEK when it is at most 72 hours
   from now; otherwise LATER; a message that is not included is listed
   nowhere, and the stored zone plays no part. *)
C10_OrderedRule ==
    [][\A owner \in GridOwners :
          FetchGrid(owner) =>
            \A i \in Ids :
              LET m == messages[i]
                  has == m.deadline_at # NoDeadline
                  due == m.deadline_at - now
                  shown == {z \in Zones : i \in ZoneIds(grid', z)}
              IN  IF Included(m, owner)
                  THEN /\ Cardinality(shown) = 1
                       /\ m.risk_score >= 80 => shown = {"STAT"}
                       /\ (m.risk_score < 80 /\ has /\ due <= 24)
                             => shown = {"TODAY"}
                       /\ (m.risk_score < 80 /\ has /\ due > 24 /\ due <= 72)
                             => shown = {"THIS_WEEK"}
                       /\ (m.risk_score < 80 /\ (~has \/ due > 72))
                             => shown = {"LATER"}
                  ELSE shown = {}]_vars

\* stored zone STAT, risk_score 0.5, deadline 10 hours away: shown under TODAY
C10_Witness ==
    /\ now = 0
    /\ grid # NoGrid
    /\ \E i \in Ids :
          /\ messages[i].zone = "STAT"
          /\ messages[i].risk_score = 50
          /\ messages[i].deadline_at = 10
          /\ i \in ZoneIds(grid, "TODAY")
          /\ i \notin ZoneIds(grid, "STAT")

EventsOf(id) ==
    {k \in DOMAIN events :
        events[k].vector_id = id /\ events[k].event_type = "ESCALATED"}

IsPrefix(a, b) == Len(a) <= Len(b) /\ SubSeq(b, 1, Len(a)) = a

(* C16: every successful escalate acts on an existing non-resolved message,
   leaves it with lifecycle state overdue and owner lead_doctor, and appends
   exactly one event of type ESCALATED that references it; no other step
   changes the log, so n successful escalations of a message leave exactly n
   ESCALATED events for it. *)
C16_EscalateEffect ==
    /\ [][\A id \in TrackedIds :
            (Escalate(id) /\ response' = "ok")
                => /\ id \in Ids
                   /\ messages[id].lifecycle_state # "resolved"
                   /\ messages'[id].lifecycle_state = "overdue"
                   /\ messages'[id].current_owner_role = "lead_doctor"
                   /\ Len(events') = Len(events) + 1
                   /\ IsPrefix(events, events')
                   /\ events'[Len(events')].event_type = "ESCALATED"
                   /\ events'[Len(events')].vector_id = id]_vars
    /\ [][events' # events
            => \E id \in TrackedIds : Escalate(id) /\ response' = "ok"]_vars

\* one message escalated twice: two ESCALATED events for it
C16_Witness ==
    \E i \in Ids :
        /\ Cardinality(EventsOf(i)) = 2
        /\ Len(events) = 2
        /\ messages[i].lifecycle_state = "overdue"
        /\ messages[i].current_owner_role = "lead_doctor"

(* C17: for every stored message, an ESCALATED event for it is in the log if
   and only if the message has lifecycle state overdue and owner lead_doctor,
   and neither half of the state change is there without the other; an
   escalate that ends in a persistence failure changes no message and adds no
   event. *)
C17_EscalateAtomic ==
    /\ [](\A i \in Ids :
             /\ EventsOf(i) # {}
                   => /\ messages[i].lifecycle_state = "overdue"
                      /\ messages[i].current_owner_role = "lead_doctor"
             /\ (\/ messages[i].lifecycle_state = "overdue"
                 \/ messages[i].current_owner_role = "lead_doctor")
                   => EventsOf(i) # {})
    /\ [][\A id \in TrackedIds :
            (Escalate(id) /\ response' = "PersistenceError")
                => (messages' = messages /\ events' = events)]_vars

\* a failed escalate of a stored message: nothing of it is visible
C17_Witness ==
    /\ response = "PersistenceError"
    /\ \E i \in Ids :
          /\ EventsOf(i) = {}
          /\ messages[i].lifecycle_state = "triaged"
          /\ messages[i].current_owner_role = "triage_nurse"

(* C18: escalate on an unknown message id answers NotFound and escalate on a
   resolved message answers InvalidState; in both cases every message record
   is unchanged and no audit event is added. *)
C18_EscalateRejects ==
    [][\A id \in TrackedIds :
          Escalate(id) =>
            /\ id \notin Ids
                  => /\ response' = "NotFound"
                     /\ messages' = messages
                     /\ events' = events
            /\ (id \in Ids /\ messages[id].lifecycle_state = "resolved")
                  => /\ response' = "InvalidState"
                     /\ messages' = messages
                     /\ events' = events]_vars

C18_Witness ==
    /\ response = "InvalidState"
    /\ events = <<>>
    /\ \E i \in Ids : messages[i].lifecycle_state = "resolved"

(* C19, as amended: the audit log is append-only: across ingest, correct,
   status change, escalate and delete every event once inserted is still
   present with unchanged fields; every event references exactly one message
   id, that of a message that existed when the event was inserted, and the
   event stays in the log when that message is later deleted. *)
C19_AppendOnly ==
    /\ [][IsPrefix(events, events')]_vars
    /\ [][\A k \in DOMAIN events' \ DOMAIN events :
            events'[k].vector_id \in Ids]_vars
    /\ [](\A k \in DOMAIN events :
             /\ events[k].id = k
             /\ events[k].vector_id \in 1..(nextId - 1))

\* an event whose message the user has deleted
C19_Witness ==
    \E k \in DOMAIN events :
        /\ events[k].event_type = "ESCALATED"
        /\ events[k].vector_id \notin Ids

(* C19 as stated: every event once inserted is still present with unchanged
   fields, and every event references an existing message. *)
C19_Original ==
    /\ [][IsPrefix(events, events')]_vars
    /\ [](\A k \in DOMAIN events : events[k].vector_id \in Ids)

(* C20: a message is stored as triaged when it is first classified; after
   that its lifecycle state changes only from triaged or pending_action to
   resolved by the done action, or from a non-resolved state to overdue by an
   escalation; no step changes the lifecycle state of a resolved message. *)
C20_LifecycleTransitions ==
    /\ [][Ingested => messages'[nextId].lifecycle_state = "triaged"]_vars
    /\ [][\A i \in Ids \cap DOMAIN messages' :
            LET a == messages[i].lifecycle_state
                b == messages'[i].lifecycle_state
            IN  a # b =>
                  \/ /\ a \in {"triaged", "pending_action"}
                     /\ b = "resolved"
                     /\ messages'[i].status = "done"
                  \/ /\ a # "resolved"
                     /\ b = "overdue"
                     /\ Len(events') = Len(events) + 1
                     /\ events'[Len(events')].vector_id = i]_vars

\* a resolved message that a later status action left resolved
C20_Witness ==
    \E i \in Ids :
        /\ messages[i].lifecycle_state = "resolved"
        /\ messages[i].status = "archived"

\* the ids listed under any zone of a grid response
ShownIds(g) == UNION {ZoneIds(g, z) : z \in Zones}

RECURSIVE SumTotals(_, _)
SumTotals(g, k) ==
    IF k = 0 THEN 0 ELSE g.zones[k].total_count + SumTotals(g, k - 1)

OpenLifecycles == {"new", "triaged", "pending_action", "overdue"}

(* C11, as amended: a grid query includes a message if and only if its
   lifecycle state maps to NEEDS_REPLY, WAITING or OVERDUE (new; triaged and
   pending_action; overdue) and, when an owner is asked for, the message is
   that owner's: a resolved message is counted in no zone's total_count and
   appears in no zone's items, while an archived or snoozed message, whose
   lifecycle state is untouched by the status action, is still included. *)
C11_LifecycleFilter ==
    [][\A owner \in GridOwners :
          FetchGrid(owner) =>
            LET inc == {i \in Ids :
                          /\ messages[i].lifecycle_state \in OpenLifecycles
                          /\ owner = "ALL"
                                \/ messages[i].current_owner_role = owner}
            IN  /\ ShownIds(grid') = inc
                /\ SumTotals(grid', Len(grid'.zones)) = Cardinality(inc)
                /\ \A i \in Ids :
                      messages[i].lifecycle_state = "resolved"
                          => i \notin ShownIds(grid')]_vars

\* an archived message in lifecycle state new, listed by the grid
C11_Witness ==
    /\ grid # NoGrid
    /\ grid = Bucket(messages, grid.owner, now)
    /\ \E i \in Ids :
          /\ messages[i].status = "archived"
          /\ messages[i].lifecycle_state = "new"
          /\ i \in ShownIds(grid)
    /\ SumTotals(grid, Len(grid.zones)) >= 1

(* C11 as stated: a resolved or archived message appears in no zone's items
   and is counted in no zone's total_count. *)
C11_Original ==
    [][\A owner \in GridOwners :
          FetchGrid(owner) =>
            \A i \in Ids :
              (\/ messages[i].lifecycle_state = "resolved"
               \/ messages[i].status = "archived")
                  => /\ i \notin ShownIds(grid')
                     /\ SumTotals(grid', Len(grid'.zones))
                           <= Cardinality(Ids \ {i})]_vars

\* what the claim compares of two responses: per zone, the counts and the items
ZoneSummary(g) ==
    [k \in DOMAIN g.zones |->
        [zone |-> g.zones[k].zone,
         total_count |-> g.zones[k].total_count,
         overdue_count |-> g.zones[k].overdue_count,
         ids |-> ZoneIds(g, g.zones[k].zone)]]

(* C12, as amended: a grid query repeated for the same owner on an unchanged
   message set and at the same current time returns identical zone
   assignments, total counts and overdue counts. *)
C12_Idempotent ==
    [][\A owner \in GridOwners :
          (FetchGrid(owner) /\ grid = Bucket(messages, owner, now))
              => ZoneSummary(grid') = ZoneSummary(grid)]_vars

\* a response with messages in it, as a repeated query at this hour returns it
C12_Witness ==
    /\ grid # NoGrid
    /\ now = 1
    /\ grid = Bucket(messages, grid.owner, now)
    /\ SumTotals(grid, Len(grid.zones)) >= 2
    /\ \E k \in DOMAIN grid.zones : grid.zones[k].overdue_count >= 1

(* C12 as stated: two grid queries on an unchanged message set return
   identical zone assignments, total counts and overdue counts. *)
C12_Original ==
    [][\A owner \in GridOwners :
          (FetchGrid(owner) /\ grid.owner = owner /\ messages' = messages)
              => ZoneSummary(grid') = ZoneSummary(grid)]_vars

\* the messages a query for owner at time t puts in zone z
ZoneMembers(owner, z, t) ==
    {i \in Ids :
        /\ Included(messages[i], owner)
        /\ ZoneForMessage(messages[i], t) = z}

(* C13: in every grid response each zone's overdue_count is the number of
   messages bucketed in that zone whose deadline has passed and whose
   lifecycle state is not resolved, its total_count is the number of messages
   bucketed in the zone, and overdue_count <= total_count. *)
C13_OverdueCount ==
    [][\A owner \in GridOwners :
          FetchGrid(owner) =>
            \A k \in DOMAIN grid'.zones :
              LET z == grid'.zones[k]
                  in_zone == ZoneMembers(owner, z.zone, now)
                  late == {i \in in_zone :
                             /\ messages[i].deadline_at # NoDeadline
                             /\ messages[i].deadline_at < now
                             /\ messages[i].lifecycle_state # "resolved"}
              IN  /\ z.total_count = Cardinality(in_zone)
                  /\ z.overdue_count = Cardinality(late)
                  /\ z.overdue_count <= z.total_count]_vars

\* a zone with several overdue messages among others that are not
C13_Witness ==
    /\ grid # NoGrid
    /\ \E k \in DOMAIN grid.zones :
          /\ grid.zones[k].overdue_count >= 2
          /\ grid.zones[k].overdue_count < grid.zones[k].total_count
    /\ \E i \in Ids : messages[i].deadline_at = NoDeadline

\* a ranks strictly before b: higher risk_score, or equal risk_score and an
\* earlier deadline (a message without deadline has the latest)
Outranks(a, b) ==
    \/ a.risk_score > b.risk_score
    \/ /\ a.risk_score = b.risk_score
       /\ a.deadline_at # NoDeadline
       /\ b.deadline_at = NoDeadline \/ a.deadline_at < b.deadline_at

(* C14: the preview of each zone holds messages of that zone only, each once,
   in descending risk_score order with ties in ascending deadline order, cut
   to at most 3 items for STAT and at most 8 for each other zone, and no
   message left out ranks before a message shown. *)
C14_Preview ==
    [][\A owner \in GridOwners :
          FetchGrid(owner) =>
            \A z \in Zones :
              LET pv == Preview(grid', z)
                  in_zone == ZoneMembers(owner, z, now)
                  cap == IF z = "STAT" THEN 3 ELSE 8
                  shown == {pv[n].id : n \in DOMAIN pv}
              IN  /\ Len(pv) =
                        IF Cardinality(in_zone) < cap
                        THEN Cardinality(in_zone) ELSE cap
                  /\ shown \subseteq in_zone
                  /\ Cardinality(shown) = Len(pv)
                  /\ \A a, b \in DOMAIN pv :
                        a < b => ~Outranks(messages[pv[b].id], messages[pv[a].id])
                  /\ \A i \in in_zone \ shown, n \in DOMAIN pv :
                        ~Outranks(messages[i], messages[pv[n].id])]_vars

\* four STAT messages previewed as three, nine TODAY messages as eight
C14_Witness ==
    /\ grid # NoGrid
    /\ \E k \in DOMAIN grid.zones :
          /\ grid.zones[k].zone = "STAT"
          /\ grid.zones[k].total_count = 4
    /\ Len(Preview(grid, "STAT")) = 3
    /\ \E k \in DOMAIN grid.zones :
          /\ grid.zones[k].zone = "TODAY"
          /\ grid.zones[k].total_count = 9
    /\ Len(Preview(grid, "TODAY")) = 8

(* C15: as an hour passes, with the stored messages unchanged and no
   classification run, the display zone of no message moves to a less urgent
   zone; a later grid query lists no message under a less urgent zone than an
   earlier query for the same owner did. *)
C15_UrgencyRises ==
    /\ [][Tick =>
            /\ messages' = messages
            /\ \A i \in Ids :
                  ZoneRank(ZoneForMessage(messages[i], now'))
                      <= ZoneRank(ZoneForMessage(messages[i], now))]_vars
    /\ [][\A owner \in GridOwners :
            (FetchGrid(owner) /\ grid.owner = owner)
                => /\ messages' = messages
                   /\ \A i \in Ids, z1, z2 \in Zones :
                         (i \in ZoneIds(grid, z1) /\ i \in ZoneIds(grid', z2))
                             => ZoneRank(z2) <= ZoneRank(z1)]_vars

\* listed under THIS_WEEK an hour ago, due within 24 hours now
C15_Witness ==
    /\ now >= 1
    /\ \E i \in Ids :
          /\ i \in ZoneIds(grid, "THIS_WEEK")
          /\ ZoneForMessage(messages[i], now) = "TODAY"
          /\ messages[i].zone = "LATER"

(* C21: a message snoozed until t is in no action-center answer given
   before t and is in every answer given at or after t, listed as
   snoozed_due; only a status action changes its status or snoozed_until, so
   nothing but the passing of time is needed to bring it back. *)
C21_SnoozeWakes ==
    /\ [][GetActionCenter =>
            \A i \in Ids :
              messages[i].status = "snoozed" =>
                /\ now < messages[i].snoozed_until
                      => i \notin actionCenter'.action_items
                /\ now >= messages[i].snoozed_until
                      => /\ i \in actionCenter'.action_items
                         /\ i \in actionCenter'.snoozed_due]_vars
    /\ [][(\A id \in Ids, st \in {"done", "archived", "snoozed"},
              h \in SnoozeOptions \cup SnoozeHours : ~SetStatus(id, st, h))
            => \A i \in Ids :
                 /\ messages'[i].status = messages[i].status
                 /\ messages'[i].snoozed_until = messages[i].snoozed_until]_vars

\* a message snoozed an hour ago for one hour, back among the action items
C21_Witness ==
    \E i \in Ids :
       /\ messages[i].status = "snoozed"
       /\ messages[i].snoozed_until = 1
       /\ now = 2
       /\ i \in actionCenter.snoozed_due
       /\ actionCenter.total_action_items = 1

\* the store as the serial replay carries it
Store(ms, evs, ovs, last) ==
    [messages |-> ms, events |-> evs, overrides |-> ovs, lastCorrection |-> last]

\* the store after call c ran alone, start to end, on store st
RunAlone(st, c) ==
    LET row == st.messages[c.id]
    IN  IF c.op = "correct"
        THEN Store([st.messages EXCEPT ![c.id].zone = c.zone,
                                       ![c.id].corrected = TRUE],
                   st.events,
                   {r \in st.overrides : r.key # row.sender_domain}
                      \cup {[key |-> row.sender_domain, zone |-> c.zone]},
                   [key |-> row.sender_domain, zone |-> c.zone])
        ELSE IF row.lifecycle_state = "resolved" \/ c.outcome = "PersistenceError"
        THEN st
        ELSE Store([st.messages EXCEPT ![c.id].lifecycle_state = "overdue",
                                       ![c.id].current_owner_role = EscalationRole],
                   Append(st.events,
                          [id |-> Len(st.events) + 1, vector_id |-> c.id,
                           event_type |-> "ESCALATED"]),
                   st.overrides, st.lastCorrection)

RECURSIVE RunSerially(_, _)
RunSerially(st, cs) ==
    IF cs = <<>> THEN st ELSE RunSerially(RunAlone(st, Head(cs)), Tail(cs))

Orders(n) == {p \in [1..n -> 1..n] : \A i, j \in 1..n : p[i] = p[j] => i = j}

\* the row of message i before any call: what the first call on it read
RowAtStart(i) ==
    LET on == {k \in DOMAIN calls : calls[k].id = i}
    IN  IF on = {} THEN messages[i]
        ELSE calls[CHOOSE k \in on : \A j \in on : k <= j].snapshot

AllReturned == \A k \in DOMAIN calls : calls[k].outcome # "running"

(* C22: whenever the corrections and escalations begun so far have all
   returned, in whatever way their reads and writes interleaved, the message
   records, the audit log, the override table and the last correction are
   those some serial order of the same calls leaves, so no update is lost;
   and the write of a call changes the record of no other message. *)
C22_Serializable ==
    /\ [](AllReturned =>
            \E p \in Orders(Len(calls)) :
               RunSerially(Store([i \in Ids |-> RowAtStart(i)], <<>>, {}, NoCorrection),
                           [n \in DOMAIN calls |-> calls[p[n]]])
                  = Store(messages, events, overrides, lastCorrection))
    /\ [][\A k \in DOMAIN calls :
            Commit(k) => \A j \in Ids \ {calls[k].id} :
                            messages'[j] = messages[j]]_vars

\* a correction and an escalation of message 1, both begun before either
\* wrote, both done: the record is corrected and escalated
C22_Witness ==
    /\ Len(calls) = 2
    /\ AllReturned
    /\ calls[1].op = "correct" /\ calls[2].op = "escalate"
    /\ calls[1].id = 1 /\ calls[2].id = 1
    /\ calls[2].outcome = "ok"
    /\ calls[2].snapshot.corrected = FALSE
    /\ messages[1].corrected
    /\ messages[1].zone = "STAT"
    /\ messages[1].lifecycle_state = "overdue"
    /\ Len(events) = 1

(* C23: every call of classify returns: a call waiting for the reasoning
   provider leads to the call having returned, also when the provider never
   answers, and the return the timeout brings is the degraded result, zone
   LATER with the fixed low confidence, stored without an error raised. *)
C23_ClassifyReturns ==
    /\ \A k \in 1..MaxCalls :
          (Len(calls) >= k /\ calls[k].phase = "waiting")
              ~> (Len(calls) >= k /\ calls[k].phase = "returned")
    /\ [][\A k \in DOMAIN calls :
            TimeoutFires(k) =>
               /\ calls'[k].phase = "returned"
               /\ calls'[k].result.zone = "LATER"
               /\ calls'[k].result.confidence = DegradedConfidence
               /\ ~calls'[k].result.raised
               /\ response' = "ok"
               /\ messages'[nextId].zone = "LATER"]_vars

\* a call that waited and returned degraded, after one that needed no provider
C23_Witness ==
    /\ Len(calls) = 2
    /\ calls[1].timer = "unused" /\ calls[1].result.zone = "STAT"
    /\ calls[2].timer = "armed"
    /\ calls[2].phase = "returned"
    /\ calls[2].result.provider = "failed"
    /\ calls[2].result.confidence = DegradedConfidence
    /\ messages[2].zone = "LATER"

\* request k gets this reply and its handler runs on
Responds(k, reply) ==
    \/ LoginResponse(k, reply)
    \/ \E shape \in ZoneShapes : ByZoneResponse(k, reply, shape)
    \/ ActionCenterResponse(k, reply)
    \/ DeleteResponse(k, reply)

\* the Error message apiCall makes of a non-OK response
DetailOf(reply) == IF reply.detail = "" THEN "Request failed" ELSE reply.detail

(* C24: when apiCall gets a 401 response and holds a token (the token of the
   render that made the call, which it sent with the request), it removes
   docboxrx_token and docboxrx_user from localStorage, sets token, user and
   zoneData to null and returns null without throwing; on a 401 when it holds
   no token, and on every other non-OK response, it throws an Error with the
   detail of the response ('Request failed' when the response has none) and
   leaves token, user and localStorage alone. *)
C24_AutoLogout ==
    [][\A k \in Pending \cap DOMAIN requests' :
          requests'[k].status \notin {"none", "200", "timeout"} =>
             IF requests'[k].status = "401" /\ requests[k].token # NoToken
             THEN /\ storage' = EmptyStorage
                  /\ token' = NoToken
                  /\ user' = NoUser
                  /\ zoneData' = NoZoneData
                  /\ requests'[k].outcome = "null"
             ELSE /\ requests'[k].outcome = "throw"
                  /\ requests'[k].message =
                        DetailOf(CHOOSE reply \in Replies :
                                    reply.status = requests'[k].status)
                  /\ UNCHANGED <<token, user, storage>>]_vars

\* a session with messages on screen ended by a 401
C24_Witness ==
    /\ token = NoToken
    /\ user = NoUser
    /\ storage = EmptyStorage
    /\ zoneData = NoZoneData
    /\ selectedMessage # NoMessage
    /\ \E k \in DOMAIN requests :
          /\ requests[k].outcome = "null"
          /\ requests[k].token # NoToken
          /\ requests[k].kind = "by-zone"
          /\ requests[k].origin = "user"

\* a step that ends the session: handleLogout, or apiCall on a 401
EndsSession ==
    \/ HandleLogout
    \/ \E k \in DOMAIN requests, reply \in Replies :
          /\ reply.status = "401"
          /\ requests[k].token # NoToken
          /\ Responds(k, reply)

(* C27: after handleLogout or the 401 auto-logout, zoneData, selectedMessage
   and actionCenter are all empty, and no user who is logged in has on
   screen a zoneData, a selected message or an action center of another
   user. *)
C27_NoSessionData ==
    /\ [][EndsSession =>
            /\ zoneData' = NoZoneData
            /\ selectedMessage' = NoMessage
            /\ actionCenter' = NoActionCenter]_vars
    /\ [](user # NoUser =>
            /\ zoneData.owner \in {NoUser, user}
            /\ selectedMessage.owner \in {NoUser, user}
            /\ actionCenter.owner \in {NoUser, user})

SessionConsistent ==
    /\ token # NoToken <=> user # NoUser
    /\ storage.docboxrx_token # NoToken <=> storage.docboxrx_user # NoUser

(* C30: after any sequence of page loads, logins, registrations, logouts and
   401 responses, the token in memory is set if and only if the user in
   memory is set, localStorage holds docboxrx_token if and only if it holds
   docboxrx_user, and a login or registration that fails changes none of
   the four. *)
C30_SessionConsistent ==
    /\ []SessionConsistent
    /\ [][\A k \in Pending \cap DOMAIN requests' :
            (requests[k].kind = "login" /\ requests'[k].status \notin {"none", "200"})
                => UNCHANGED <<token, user, storage>>]_vars

\* a login refused after an earlier session was opened and closed
C30_Witness ==
    /\ token = NoToken
    /\ storage = EmptyStorage
    /\ \E k, j \in DOMAIN requests :
          /\ j < k
          /\ requests[j].kind = "login" /\ requests[j].outcome = "spent"
          /\ requests[k].kind = "login" /\ requests[k].outcome = "throw"
          /\ requests[k].message = "Could not validate credentials"
    /\ \E k \in DOMAIN requests : requests[k].kind = "by-zone"

\* the first message of the most urgent zone of zd that has one
MostUrgentFirst(zd) ==
    LET full == {n \in DOMAIN ZoneOrder : zd.zones[ZoneOrder[n]] # <<>>}
    IN  IF full = {} THEN NoMessage
        ELSE [id |-> zd.zones[ZoneOrder[CHOOSE n \in full : \A o \in full : n <= o]][1],
              owner |-> zd.owner]

(* C25: on every step that sets zoneData to a new value that is not null,
   if no message is selected the app selects the first message of the most
   urgent non-empty zone in the order STAT, TODAY, THIS_WEEK, LATER (none
   when all four are empty), and if a message is selected the selection
   stays as it is. *)
C25_AutoSelect ==
    [][(zoneData' # zoneData /\ zoneData' # NoZoneData) =>
          selectedMessage' =
             IF selectedMessage = NoMessage THEN MostUrgentFirst(zoneData')
             ELSE selectedMessage]_vars

\* after the selected message was deleted, the new zoneData has nothing in
\* STAT and the first TODAY message is selected
C25_Witness ==
    /\ zoneData.zones = [STAT |-> <<>>, TODAY |-> <<2>>, THIS_WEEK |-> <<3>>,
                         LATER |-> <<>>]
    /\ selectedMessage = [id |-> 2, owner |-> "alice"]
    /\ \E k \in DOMAIN requests :
          requests[k].kind = "delete" /\ requests[k].outcome = "spent"
    /\ \E k \in DOMAIN requests :
          /\ requests[k].kind = "by-zone"
          /\ requests[k].origin = "handler"
          /\ requests[k].outcome = "json"

\* request k, an escalate request in flight, is answered in this step
EscalateAnswered(k) ==
    /\ k \in Pending \cap DOMAIN requests'
    /\ requests[k].kind = "escalate"
    /\ requests'[k].status # "none"

\* this step sends a new /api/state/grid request
Refetches ==
    /\ Len(requests') = Len(requests) + 1
    /\ requests'[Len(requests')].kind = "grid"

(* C26: when the escalate request succeeded GridView notifies 'Escalated to
   lead doctor.', clears the selected item and refetches the grid; when it
   failed, a 401 and a timeout included, the selected item stays, no grid
   request goes out and the notification is the error message. *)
C26_EscalateOutcome ==
    [][\A k \in DOMAIN requests :
          EscalateAnswered(k) =>
             IF requests'[k].status = "200"
             THEN /\ jone5Message' = "Escalated to lead doctor."
                  /\ selectedItem' = NoItem
                  /\ Refetches
             ELSE /\ selectedItem' = selectedItem
                  /\ ~Refetches
                  /\ jone5Message' = requests'[k].message]_vars

\* the requests of one endpoint that are in flight, and those that were served
InFlight(kind) == {k \in Pending : requests[k].kind = kind}

Served(kind) ==
    {k \in DOMAIN requests : requests[k].kind = kind /\ requests[k].status = "200"}

Latest(ks) == CHOOSE k \in ks : \A j \in ks : j <= k

(* C28: once no fetch is in flight, the zoneData on screen is the body of the
   by-zone request issued last among those served, and the grid on screen is
   the body of the grid request issued last among those served, in whatever
   order the responses arrived. *)
C28_LatestWins ==
    token # NoToken =>
       /\ (InFlight("by-zone") = {} /\ Served("by-zone") # {}) =>
             /\ zoneData # NoZoneData
             /\ zoneData.request = Latest(Served("by-zone"))
       /\ (InFlight("grid") = {} /\ Served("grid") # {}) =>
             /\ grid # NoGrid
             /\ grid.request = Latest(Served("grid"))

\* the endpoints of the handlers that set the loading flag
LoadingKinds == {"login", "by-zone", "ingest"}

(* C29: the loading flag is true whenever a request started by handleLogin,
   fetchMessages or handleIngest is in flight, and false when none is. *)
C29_LoadingTracksRequests ==
    loading <=> (\E kind \in LoadingKinds : InFlight(kind) # {})
============================================================================
